---- MODULE Spec2Model ----
(***************************************************************************)
(* A model of the stock-sentiment pipeline: the cache-aware orchestrator   *)
(* (sentiment.py analyze_with_cache), the classification client            *)
(* (analyze_articles_with_openai), the JSON disk cache (cache.py) and the  *)
(* HTTP transport (http.py).                                               *)
(*                                                                         *)
(* Numbers: a score or confidence x is held as the integer 100*x, so that  *)
(* 0.7 is 70, the interval [-1,1] is -100..100 and [0,1] is 0..100.        *)
(* Strings that the code formats or compares piecewise are sequences of    *)
(* tokens; the tokens ":" and "/" stand for those characters.              *)
(***************************************************************************)
EXTENDS Integers, Sequences, FiniteSets, TLC

(***************************************************************************)
(* Bounds of the model.                                                    *)
(***************************************************************************)
\* The clock runs 0..MaxTime.
MaxTime == 1
\* analyze_with_cache is called at most MaxRuns times in a behaviour.
MaxRuns == 2

(***************************************************************************)
(* JSON values as Python sees them after json.loads.                       *)
(***************************************************************************)
Null == [t |-> "null", n |-> 0, s |-> ""]
Num(n) == [t |-> "num", n |-> n, s |-> ""]
Str(s) == [t |-> "str", n |-> 0, s |-> s]
\* true / false: instances of int in Python, float(True) = 1.0
Bool(b) == [t |-> "bool", n |-> IF b THEN 1 ELSE 0, s |-> ""]
\* NaN, Infinity, -Infinity: json.loads accepts them as floats
NonFinite == [t |-> "nonfinite", n |-> 0, s |-> ""]
\* an integer too large for a float, such as 10**400
BigInt == [t |-> "bigint", n |-> 0, s |-> ""]
\* an array or an object: unhashable in Python
Compound == [t |-> "compound", n |-> 0, s |-> ""]

IsStr(v) == v.t = "str"
\* isinstance(v, (int, float))
IsIntOrFloat(v) == v.t \in {"num", "bool", "nonfinite", "bigint"}

Min(a, b) == IF a < b THEN a ELSE b
Max(a, b) == IF a > b THEN a ELSE b
Abs(a) == IF a < 0 THEN -a ELSE a

_clamp(value, low, high) == Max(low, Min(high, value))

Labels == {"positive", "negative", "neutral"}

(***************************************************************************)
(* Reason texts.  "" is the empty string, " " a string of white space      *)
(* only, "r" a short reason, "long" a reason of more than 140 characters   *)
(* and "long..." its first 139 characters followed by an ellipsis.         *)
(***************************************************************************)
NoClassification == "No classification returned"

\* " ".join(text.split()), then the cut to `limit` characters
_truncate(text) ==
    CASE text = " " -> ""
      [] text = "long" -> "long..."
      [] OTHER -> text

\* text.strip()
Strip(text) == IF text = " " THEN "" ELSE text

(***************************************************************************)
(* ArticleSentiment and its to_dict().                                     *)
(***************************************************************************)
ArticleSentiment(id, label, score, confidence, reason) ==
    [article_id |-> id, label |-> label, score |-> score,
     confidence |-> confidence, reason |-> reason]

to_dict(r) ==
    [article_id |-> Str(r.article_id), label |-> Str(r.label),
     score |-> Num(r.score), confidence |-> Num(r.confidence),
     reason |-> r.reason]

\* The neutral, zero-confidence result
Neutral(id, reason) == ArticleSentiment(id, "neutral", 0, 0, reason)

(***************************************************************************)
(* JSON objects of the shape the classifier returns and the cache stores:  *)
(* a record of five JSON values, a key that is missing being Null, as      *)
(* dict.get gives None for both.  Any other JSON value is not a dict.      *)
(***************************************************************************)
Dict(article_id, label, score, confidence, reason) ==
    [article_id |-> article_id, label |-> label, score |-> score,
     confidence |-> confidence, reason |-> reason]

\* isinstance(v, dict)
IsDict(v) == "label" \in DOMAIN v

(***************************************************************************)
(* analyze_articles_with_openai, after create_response returned.           *)
(***************************************************************************)
\* float(v) of an int or float, in hundredths
FloatOf(v) == IF v.t = "bool" THEN 100 * v.n ELSE v.n

\* The sign correction with a negation for -abs(...): a negative label
\* flips the score it is given
SignToLabel_Negates(label, score) ==
    CASE label = "neutral" -> 0
      [] label = "positive" -> Abs(score)
      [] label = "negative" -> -score

\* The sign correction of a clamped score to its label
SignToLabel(label, score) ==
    CASE label = "neutral" -> 0
      [] label = "positive" -> Abs(score)
      [] label = "negative" -> -Abs(score)

\* The reason kept for a fresh result
FreshReason(reason, include_reasons) ==
    IF include_reasons /\ IsStr(reason) THEN Str(_truncate(reason.s)) ELSE Null

\* One pass of the loop over raw_results: "skip" (continue), "raise" (an
\* exception leaves the function) or "keep" (by_id[article_id] is assigned).
ValidateItem(item, include_reasons) ==
    IF ~IsDict(item) THEN [kind |-> "skip"]
    ELSE IF ~IsStr(item.article_id) \/ item.article_id.s = "" THEN [kind |-> "skip"]
    \* label not in {...}: hashing a list or a dict raises TypeError
    ELSE IF item.label.t = "compound" THEN [kind |-> "raise", error |-> "TypeError"]
    ELSE IF ~(IsStr(item.label) /\ item.label.s \in Labels) THEN [kind |-> "skip"]
    ELSE IF ~IsIntOrFloat(item.score) \/ ~IsIntOrFloat(item.confidence) THEN [kind |-> "skip"]
    \* float(score) of an int beyond the float range raises OverflowError
    ELSE IF item.score.t = "bigint" THEN [kind |-> "raise", error |-> "OverflowError"]
    ELSE IF item.score.t = "nonfinite" THEN [kind |-> "skip"]
    ELSE IF item.confidence.t = "bigint" THEN [kind |-> "raise", error |-> "OverflowError"]
    ELSE IF item.confidence.t = "nonfinite" THEN [kind |-> "skip"]
    ELSE [kind |-> "keep",
          result |-> ArticleSentiment(
              item.article_id.s,
              item.label.s,
              SignToLabel(item.label.s, _clamp(FloatOf(item.score), -100, 100)),
              _clamp(FloatOf(item.confidence), 0, 100),
              FreshReason(IF include_reasons THEN item.reason ELSE Null, include_reasons))]

\* by_id after the loop over raw_results[from..], or the exception that left it
RECURSIVE CollectById(_, _, _, _)
CollectById(raw_results, from, by_id, include_reasons) ==
    IF from > Len(raw_results) THEN [kind |-> "ok", by_id |-> by_id]
    ELSE LET o == ValidateItem(raw_results[from], include_reasons) IN
         CASE o.kind = "raise" -> o
           [] o.kind = "skip" -> CollectById(raw_results, from + 1, by_id, include_reasons)
           [] o.kind = "keep" ->
                CollectById(raw_results, from + 1,
                            [k \in DOMAIN by_id \cup {o.result.article_id} |->
                                IF k = o.result.article_id THEN o.result ELSE by_id[k]],
                            include_reasons)

EmptyMap == [k \in {} |-> Null]

\* The backfill loop over the input articles
Backfill(articles, by_id, include_reasons) ==
    [i \in 1..Len(articles) |->
        IF articles[i] \in DOMAIN by_id THEN by_id[articles[i]]
        ELSE Neutral(articles[i],
                     IF include_reasons THEN Str(NoClassification) ELSE Null)]

(***************************************************************************)
(* A reply of the classification service as analyze_articles_with_openai   *)
(* meets it: create_response raised (error), or returned a response whose  *)
(* output text is empty ("no_text"), is not JSON ("not_json"), or parses   *)
(* to a JSON value: not an object ("non_object"), an object without a      *)
(* results array ("no_results") or with one ("results", items).            *)
(***************************************************************************)
analyze_articles_with_openai(api_key, articles, include_reasons, reply) ==
    IF api_key = "" THEN [kind |-> "raise", error |-> "ConfigurationError"]
    ELSE CASE reply.kind = "error" -> [kind |-> "raise", error |-> reply.error]
           [] reply.kind = "no_text" -> [kind |-> "raise", error |-> "ParseError"]
           [] reply.kind = "not_json" -> [kind |-> "raise", error |-> "ParseError"]
           \* parsed.get on a list, a string, a number or None
           [] reply.kind = "non_object" -> [kind |-> "raise", error |-> "AttributeError"]
           [] reply.kind = "no_results" -> [kind |-> "raise", error |-> "ParseError"]
           [] reply.kind = "results" ->
                LET c == CollectById(reply.items, 1, EmptyMap, include_reasons) IN
                IF c.kind = "raise" THEN c
                ELSE [kind |-> "ok", results |-> Backfill(articles, c.by_id, include_reasons)]

(***************************************************************************)
(* JsonDiskCache.  The cache directory is a function from key strings to   *)
(* files; _sha256 is taken to be injective, so a file is named by its key. *)
(* A file is absent (NoFile), holds bytes that are not a JSON object       *)
(* (Corrupt), or holds {"created_at": ..., "value": ...}.                  *)
(***************************************************************************)
NoFile == [kind |-> "absent"]
Corrupt == [kind |-> "corrupt"]
\* bytes that are not UTF-8: read_text raises UnicodeDecodeError, which get
\* does not catch
BadBytes == [kind |-> "bad_bytes"]
Entry(created_at, value) == [kind |-> "entry", created_at |-> created_at, value |-> value]

\* ttl_seconds=None
NoTTL == -1

\* JsonDiskCache.get with `>=` for `>` in the age test: an entry expires
\* the moment its age reaches the TTL
CacheGet_ExpiresAtTTL(dir, key, ttl_seconds, clock, disk_ok) ==
    LET f == dir[key] IN
    IF ~disk_ok \/ f.kind = "absent" THEN [value |-> Null, dir |-> dir]
    ELSE IF f.kind = "corrupt"
         THEN [value |-> Null, dir |-> [dir EXCEPT ![key] = NoFile]]
    ELSE IF ttl_seconds # NoTTL /\ Max(0, clock - f.created_at) >= ttl_seconds
         THEN [value |-> Null, dir |-> [dir EXCEPT ![key] = NoFile]]
    ELSE [value |-> f.value, dir |-> dir]

\* JsonDiskCache.get: the value returned (Null for None) and the directory
\* afterwards.  With disk_ok false every read fails with OSError.
CacheGet(dir, key, ttl_seconds, clock, disk_ok) ==
    LET f == dir[key] IN
    IF ~disk_ok \/ f.kind = "absent" THEN [value |-> Null, dir |-> dir]
    ELSE IF f.kind = "corrupt"
         THEN [value |-> Null, dir |-> [dir EXCEPT ![key] = NoFile]]
    ELSE IF ttl_seconds # NoTTL /\ Max(0, clock - f.created_at) > ttl_seconds
         THEN [value |-> Null, dir |-> [dir EXCEPT ![key] = NoFile]]
    ELSE [value |-> f.value, dir |-> dir]

\* JsonDiskCache.set: the temporary file is written and renamed over the
\* destination; with disk_ok false the write fails and nothing changes.
CacheSet(dir, key, value, clock, disk_ok) ==
    IF disk_ok THEN [dir EXCEPT ![key] = Entry(clock, value)] ELSE dir

(***************************************************************************)
(* Cache keys of analyze_with_cache.  A key is the sequence of its tokens; *)
(* the f-string puts a ":" between the parts.                              *)
(***************************************************************************)
prompt_version_no_reasons == "openai_sentiment_v1"
prompt_version_with_reasons == "openai_sentiment_v2"

PromptVersion(include_reasons) ==
    IF include_reasons THEN prompt_version_with_reasons ELSE prompt_version_no_reasons

OtherVersion(include_reasons) ==
    IF include_reasons THEN prompt_version_no_reasons ELSE prompt_version_with_reasons

\* str.rstrip("/")
RECURSIVE RStripSlash(_)
RStripSlash(toks) ==
    IF toks # <<>> /\ toks[Len(toks)] = "/" THEN RStripSlash(SubSeq(toks, 1, Len(toks) - 1))
    ELSE toks

\* f"{temp:.6g}" of a temperature in [0.1, 1) held in units of 1e-7: six
\* significant digits are the multiples of 1e-6
Fmt6g(temp) == ToString((temp + 5) \div 10)

RECURSIVE JoinColon(_)
JoinColon(parts) ==
    IF Len(parts) = 1 THEN parts[1]
    ELSE parts[1] \o <<":">> \o JoinColon(Tail(parts))

cache_key(openai, ticker, prompt_version, article_id) ==
    JoinColon(<< <<prompt_version>>, RStripSlash(openai.base_url), openai.model,
                 <<Fmt6g(openai.temperature)>>, <<ToString(openai.max_output_tokens)>>,
                 ticker, <<article_id>> >>)

legacy_key(openai, ticker, prompt_version, article_id) ==
    JoinColon(<< <<prompt_version>>, openai.model, ticker, <<article_id>> >>)

(***************************************************************************)
(* parse_cached: the ArticleSentiment rebuilt from a cached value, or      *)
(* NoResult (None).                                                        *)
(***************************************************************************)
NoResult == [article_id |-> "", label |-> "none", score |-> 0, confidence |-> 0,
             reason |-> Null]

\* float(v) succeeds: a number, a bool or a numeric string; None and other
\* objects raise TypeError, other strings ValueError, both caught
FloatParses(v) == v.t \in {"num", "bool", "nonfinite"} \/ (IsStr(v) /\ v.s = "0.5")

FloatOfCached(v) == IF IsStr(v) THEN 50 ELSE FloatOf(v)

\* isinstance(reason, str) and reason.strip()
HasReason(reason) == IsStr(reason) /\ Strip(reason.s) # ""

parse_cached(article_id, value, require_reason) ==
    IF ~IsDict(value) THEN NoResult
    ELSE IF value.article_id # Str(article_id) THEN NoResult
    ELSE IF ~(IsStr(value.label) /\ value.label.s \in Labels) THEN NoResult
    ELSE IF ~FloatParses(value.score) \/ ~FloatParses(value.confidence) THEN NoResult
    ELSE IF value.score.t = "nonfinite" \/ value.confidence.t = "nonfinite" THEN NoResult
    ELSE IF require_reason /\ ~HasReason(value.reason) THEN NoResult
    ELSE ArticleSentiment(
            article_id,
            value.label.s,
            SignToLabel(value.label.s, _clamp(FloatOfCached(value.score), -100, 100)),
            _clamp(FloatOfCached(value.confidence), 0, 100),
            IF HasReason(value.reason) THEN Str(_truncate(Strip(value.reason.s))) ELSE Null)

\* The candidates with the keys of both versions ahead of the legacy keys
Candidates_VersionsFirst(openai, ticker, include_reasons, article_id) ==
    << [key |-> cache_key(openai, ticker, PromptVersion(include_reasons), article_id),
        require_reason |-> include_reasons],
       [key |-> cache_key(openai, ticker, OtherVersion(include_reasons), article_id),
        require_reason |-> include_reasons],
       [key |-> legacy_key(openai, ticker, PromptVersion(include_reasons), article_id),
        require_reason |-> include_reasons],
       [key |-> legacy_key(openai, ticker, OtherVersion(include_reasons), article_id),
        require_reason |-> include_reasons] >>

\* The candidate keys of an article, in probing order, each with require_reason
Candidates(openai, ticker, include_reasons, article_id) ==
    << [key |-> cache_key(openai, ticker, PromptVersion(include_reasons), article_id),
        require_reason |-> include_reasons],
       [key |-> legacy_key(openai, ticker, PromptVersion(include_reasons), article_id),
        require_reason |-> include_reasons],
       [key |-> cache_key(openai, ticker, OtherVersion(include_reasons), article_id),
        require_reason |-> include_reasons],
       [key |-> legacy_key(openai, ticker, OtherVersion(include_reasons), article_id),
        require_reason |-> include_reasons] >>

\* The loop over candidates from position k: the first candidate whose value
\* parses (used = its position, 0 when none does), the result, the file the
\* result came from, the directory afterwards and the keys read; `raised`
\* when a get left the loop with UnicodeDecodeError.
RECURSIVE Probe(_, _, _, _, _, _, _)
Probe(dir, cands, k, article_id, ttl_seconds, clock, disk_ok) ==
    IF k > Len(cands)
    THEN [used |-> 0, result |-> NoResult, value |-> Null, dir |-> dir, read |-> <<>>,
          created_at |-> clock, raised |-> FALSE]
    ELSE IF disk_ok /\ dir[cands[k].key] = BadBytes
    THEN [used |-> 0, result |-> NoResult, value |-> Null, dir |-> dir,
          read |-> <<cands[k].key>>, created_at |-> clock, raised |-> TRUE]
    ELSE LET g == CacheGet(dir, cands[k].key, ttl_seconds, clock, disk_ok)
             r == parse_cached(article_id, g.value, cands[k].require_reason)
         IN IF r # NoResult
            THEN [used |-> k, result |-> r, value |-> g.value, dir |-> g.dir,
                  read |-> <<cands[k].key>>,
                  created_at |-> dir[cands[k].key].created_at, raised |-> FALSE]
            ELSE LET rest == Probe(g.dir, cands, k + 1, article_id, ttl_seconds, clock, disk_ok)
                 IN [rest EXCEPT !.read = <<cands[k].key>> \o @]

\* Python's s[start:stop] for 0 <= start, as the sequence of the elements
PySlice(s, start, stop) ==
    LET e == IF stop < 0 THEN Max(stop + Len(s), 0) ELSE Min(stop, Len(s))
    IN IF e <= start THEN <<>> ELSE SubSeq(s, start + 1, e)

\* fresh_by_id.get(id): the last fresh result of that id, NoResult when none
RECURSIVE FreshById(_, _)
FreshById(results, id) ==
    IF results = <<>> THEN NoResult
    ELSE IF results[Len(results)].article_id = id THEN results[Len(results)]
    ELSE FreshById(SubSeq(results, 1, Len(results) - 1), id)

\* The merge written as a concatenation: the cached results, then the fresh
\* ones as the batches returned them
Merged_CachedThenFresh(articles, cached, fresh) ==
    LET hit == SelectSeq(articles, LAMBDA a : a \in DOMAIN cached)
    IN [i \in 1..Len(hit) |-> cached[hit[i]]] \o fresh

\* The merge loop: cached, else fresh, else the neutral backfill
Merged(articles, cached, fresh) ==
    [i \in 1..Len(articles) |->
        IF articles[i] \in DOMAIN cached THEN cached[articles[i]]
        ELSE IF FreshById(fresh, articles[i]) # NoResult THEN FreshById(fresh, articles[i])
        ELSE Neutral(articles[i], Null)]

(***************************************************************************)
(* The inputs the model draws from.                                        *)
(***************************************************************************)
Ids == {"a1", "a2"}

\* The article lists passed to analyze_with_cache (an article is its id)
ArticleLists == {<<>>, <<"a1">>, <<"a1", "a2">>, <<"a1", "a1">>}

BatchSizes == {0, 1, 2}

TTLs == {NoTTL, 0}

Ticker == <<"TSLA">>

\* OpenAISentimentConfig with its defaults; the temperature 0.2 in units of 1e-7
OpenAIConfig(api_key) ==
    [api_key |-> api_key, model |-> <<"gpt-4o-mini">>,
     base_url |-> <<"https", ":", "//api.openai.com/v1">>,
     temperature |-> 2000000, max_output_tokens |-> 900]

ApiKeys == {"", "k"}

AllKeys ==
    UNION {{cache_key(OpenAIConfig("k"), Ticker, pv, id),
            legacy_key(OpenAIConfig("k"), Ticker, pv, id)} :
           pv \in {prompt_version_no_reasons, prompt_version_with_reasons}, id \in Ids}

\* What the classification service may answer for one article of a batch:
\* nothing, or an entry with or without a reason
RawItemsFor(id) ==
    {Dict(Str(id), Str("positive"), Num(70), Num(90), Str("r")),
     Dict(Str(id), Str("negative"), Num(60), Num(80), Null)}

\* The raw result lists for a batch: for each article nothing or one entry
RECURSIVE RawResultsFor(_)
RawResultsFor(batch) ==
    IF batch = <<>> THEN {<<>>}
    ELSE LET rest == RawResultsFor(Tail(batch)) IN
         rest \cup {<<it>> \o r : it \in RawItemsFor(Head(batch)), r \in rest}

RepliesFor(batch) ==
    {[kind |-> "results", items |-> items] : items \in RawResultsFor(batch)}
    \cup {[kind |-> "error", error |-> "RemoteApiError"]}

(***************************************************************************)
(* The state.                                                              *)
(***************************************************************************)
VARIABLES
    files,          \* the cache directory
    now,            \* the clock
    pc,             \* "idle", "lookup" or "classify": where analyze_with_cache is
    args,           \* the arguments of the call in progress, or of the last one
    idx,            \* the article the lookup loop is at
    cached_results, \* article id -> ArticleSentiment, from the cache
    hits,           \* article id -> the candidate position and the cached value it came from
    to_analyze,     \* the articles without a cache hit
    fresh_results,  \* the results of the batches classified so far
    offset,         \* i of the batch loop
    outcome,        \* how the last call ended, and what it returned
    log,            \* the cache reads and writes and classification calls of the call
    oldest,         \* the oldest created_at among the entries the call was served from
    prev,           \* what the call keeps of the call before it
    runs            \* the calls started

orchVars == <<files, now, pc, args, idx, cached_results, hits, to_analyze, fresh_results,
              offset, outcome, log, oldest, prev, runs>>

\* One call of analyze_articles_with_openai on its own
VARIABLES
    call,           \* its arguments and the reply of the classification service
    returned        \* NotCalled, or how the call ended

clsVars == <<call, returned>>

NotCalled == [kind |-> "none"]

NoCall == [api_key |-> "", articles |-> <<>>, include_reasons |-> FALSE,
           reply |-> [kind |-> "no_text"]]

ClsIdle == call = NoCall /\ returned = NotCalled

\* One call of http_request_json or http_request_bytes on its own
VARIABLES
    req,            \* the function called ("json" or "bytes"), the URL and max_retries
    attempt,        \* the loop variable
    requests,       \* the requests issued
    served,         \* the status of each response, 0 for a request without one
    sleeps,         \* the calls of time.sleep
    sleep_s,        \* the argument of the last one, in hundredths of a second
    last,           \* what the last request met
    ended           \* NotEnded, or how the call ended

httpVars == <<req, attempt, requests, served, sleeps, sleep_s, last, ended>>

NotEnded == [kind |-> "none"]

NoReq == [fn |-> "json", url |-> [base |-> "", query |-> <<>>], max_retries |-> 0]

NoOutcomeYet == [kind |-> "none"]

HttpIdle ==
    /\ req = NoReq
    /\ attempt = 0
    /\ requests = 0
    /\ served = <<>>
    /\ sleeps = 0
    /\ sleep_s = 0
    /\ last = NoOutcomeYet
    /\ ended = NotEnded

(***************************************************************************)
(* JsonDiskCache on its own, one file-system call per step.  Processes     *)
(* call get and set on the files of one cache directory.                   *)
(***************************************************************************)
\* Python values handed to set: a dict with string keys (what to_dict()
\* gives), the tuple (1, 2), the list [1, 2], a str holding a lone
\* surrogate, and None
PyDict(tag) == [py |-> "dict", of |-> tag]
PyTuple == [py |-> "tuple", of |-> "1, 2"]
PyList == [py |-> "list", of |-> "1, 2"]
PySurrogate == [py |-> "str", of |-> "\\ud800"]
PyNone == [py |-> "none", of |-> ""]

\* json.dumps(value, ensure_ascii=False): the JSON text, by its type
json_dumps(value) ==
    [json |-> CASE value.py \in {"tuple", "list"} -> "array"
                [] value.py = "dict" -> "object"
                [] value.py = "str" -> "string"
                [] OTHER -> "null",
     of |-> value.of]

\* json.loads of such a text
json_loads(text) ==
    [py |-> CASE text.json = "array" -> "list"
              [] text.json = "object" -> "dict"
              [] text.json = "string" -> "str"
              [] OTHER -> "none",
     of |-> text.of]

\* str.encode("utf-8") of the text succeeds: a lone surrogate raises
\* UnicodeEncodeError
Utf8Encodes(text) == ~(text.json = "string" /\ text.of = "\\ud800")

\* What a file can hold besides an entry and bytes that are not UTF-8
\* (BadBytes): text that is not JSON, JSON that is not an object, an object without
\* created_at, an object whose created_at is not an ISO date, and the
\* beginning of a text still being written
InvalidJson == [kind |-> "invalid_json"]
NotAnObject == [kind |-> "not_object"]
NoCreatedAt == [kind |-> "no_created_at"]
BadCreatedAt == [kind |-> "bad_created_at"]
Partial == [kind |-> "partial"]
\* what read_text leaves in `raw` when it raises OSError
Unreadable == [kind |-> "unreadable"]

CacheKeys == {"k1", "k2"}
Procs == {1, 2, 3}

VARIABLES
    entries,        \* the files <sha256(key)>.json of the directory, by key
    tmp_files,      \* the file .tmp.<pid>.<time_ns> of each process's set
    proc,           \* each process: the call it is in and how its last call ended
    utcnow,         \* the clock
    calls           \* the calls made

cacheVars == <<entries, tmp_files, proc, utcnow, calls>>

NoResultYet == [kind |-> "none", value |-> PyNone, error |-> ""]

\* What a call keeps of the call the process made before it
NoEarlier ==
    [op |-> "none", key |-> "", value |-> PyNone, utc |-> 0, found |-> NoFile,
     io_failed |-> FALSE, ended |-> "none"]

\* A process that has made no call.  `utc` is the _utcnow() the call read,
\* `raw` the file get read, `before` the directory when the call started,
\* `io_failed` whether a disk operation of the call raised OSError
NotCalling(dir) ==
    [op |-> "none", pc |-> "idle", key |-> "", value |-> PyNone, ttl |-> NoTTL,
     utc |-> 0, raw |-> NoFile, before |-> dir, io_failed |-> FALSE,
     result |-> NoResultYet, earlier |-> NoEarlier]

CacheAtRest(dir) ==
    /\ entries = dir
    /\ tmp_files = [p \in Procs |-> NoFile]
    /\ proc = [p \in Procs |-> NotCalling(dir)]
    /\ utcnow = 0
    /\ calls = 0

CacheIdle == CacheAtRest([k \in CacheKeys |-> NoFile])

(***************************************************************************)
(* The functions around analyze_with_cache, each on its own.               *)
(***************************************************************************)
\* One raw entry given to both parse_cached and analyze_articles_with_openai
VARIABLES
    entry,          \* the entry: a JSON object with label, score, confidence
    from_cache,     \* NotCalled, or what the lookup of analyze_with_cache made of it
    from_model      \* NotCalled, or what analyze_articles_with_openai made of it

normVars == <<entry, from_cache, from_model>>

NormIdle == entry = Null /\ from_cache = NotCalled /\ from_model = NotCalled

\* One call of summarize_sentiment
VARIABLES
    scored,         \* results: each an ArticleSentiment's score and confidence and
                    \* the published_at of its article
    half_life_hours,
    summary         \* NotCalled, or the SentimentSummary returned

sumVars == <<scored, half_life_hours, summary>>

SumIdle == scored = <<>> /\ half_life_hours = 24 /\ summary = NotCalled

\* One call of fetch_google_news_rss
VARIABLES
    feed,           \* what the request for the feed gives: the <item> elements of
                    \* the document, or a failure
    from_datetime,  \* the cutoff argument
    fetched         \* NotCalled, or how the call ended and the articles returned

rssVars == <<feed, from_datetime, fetched>>

\* from_datetime=None
NoCutoff == [kind |-> "none"]

Rss(items) == [kind |-> "rss", items |-> items]

RssIdle == feed = Rss(<<>>) /\ from_datetime = NoCutoff /\ fetched = NotCalled

\* One run of the command `analyze`
VARIABLES
    argv,           \* the options of the command and the keys of the environment
    cli_pc,         \* where main is
    source_used,    \* its local of that name
    fetches,        \* the fetches made, in order, each with how it ended
    unique,         \* the articles handed to analyze_with_cache
    exit            \* NotCalled, or how the run ended

cliVars == <<argv, cli_pc, source_used, fetches, unique, exit>>

NoArgv ==
    [source |-> "auto", newsapi_key |-> "", openai_key |-> "", no_cache |-> FALSE,
     max_articles |-> 1]

CliIdle ==
    /\ argv = NoArgv
    /\ cli_pc = "idle"
    /\ source_used = ""
    /\ fetches = <<>>
    /\ unique = <<>>
    /\ exit = NotCalled

\* A call of analyze_with_cache that a classification call ended, and the
\* same call made again
VARIABLES
    failed_run      \* NoFailedRun, or what the call that failed left: its
                    \* to_analyze, its oldest and its cache calls

retryVars == <<failed_run>>

NoFailedRun == [kind |-> "none"]

RetryIdle == failed_run = NoFailedRun

\* Two calls of analyze_with_cache on one cache, each for one article, with
\* a ticker and an OpenAISentimentConfig of their own
VARIABLES
    stored,         \* NotCalled, or the request of the first call and the key
                    \* and value it wrote
    probed          \* NotCalled, or the request of the second call and the
                    \* candidate it was served from (0: none)

keyVars == <<stored, probed>>

KeyIdle == stored = NotCalled /\ probed = NotCalled

\* http_request_json and http_request_bytes called with the same arguments
\* and met by the same responses
VARIABLES
    pair            \* NotCalled, or the URL, max_retries and the state of each call

pairVars == <<pair>>

PairIdle == pair = NotCalled

extVars == <<normVars, sumVars, rssVars, cliVars, retryVars, keyVars, pairVars>>

ExtIdle == NormIdle /\ SumIdle /\ RssIdle /\ CliIdle /\ RetryIdle /\ KeyIdle /\ PairIdle

NoArgs ==
    [articles |-> <<>>, include_reasons |-> FALSE, batch_size |-> 1, cache |-> "none",
     cache_ttl_seconds |-> NoTTL, api_key |-> ""]

\* What a call keeps of the call before it: whether that call returned, its
\* include_reasons, whether its article list and API key were those of this
\* call, whether each of its articles had a cache hit or a fresh result,
\* whether every result it returned carried a reason, and its oldest
NoPrev ==
    [returned |-> FALSE, include_reasons |-> FALSE, same_args |-> FALSE, complete |-> FALSE,
     all_reasoned |-> FALSE, oldest |-> 0]

NoOutcome == [kind |-> "none", results |-> <<>>, error |-> ""]

Get(key) == [op |-> "get", key |-> key, batch |-> <<>>]
Set(key) == [op |-> "set", key |-> key, batch |-> <<>>]
Classify(batch) == [op |-> "classify", key |-> <<>>, batch |-> batch]

\* The cache argument and the TTL a behaviour runs with: a TTL is read only
\* by a cache that works
Configs ==
    {a \in {[NoArgs EXCEPT !.cache = c, !.cache_ttl_seconds = t] :
                 c \in {"none", "ok", "failing"}, t \in TTLs} :
        a.cache # "ok" => a.cache_ttl_seconds = NoTTL}

\* Between calls, `started` calls after construction
OrchAtRestAfter(config, dir, started) ==
    /\ files = dir
    /\ now = 0
    /\ pc = "idle"
    /\ args = config
    /\ idx = 1
    /\ cached_results = EmptyMap
    /\ hits = EmptyMap
    /\ to_analyze = <<>>
    /\ fresh_results = <<>>
    /\ offset = 0
    /\ outcome = NoOutcome
    /\ log = <<>>
    /\ oldest = 0
    /\ prev = NoPrev
    /\ runs = started

\* Before the first call
OrchAtRestWith(config, dir) == OrchAtRestAfter(config, dir, 0)

\* Before the first call, with an empty cache directory
OrchAtRest(config) == OrchAtRestWith(config, [k \in AllKeys |-> NoFile])

\* The cache directory a behaviour starts with: empty, or, under a cache
\* that works, with bytes that are not UTF-8 in every file
StartDirs(config) ==
    {[k \in AllKeys |-> NoFile]}
    \cup (IF config.cache = "ok" /\ config.cache_ttl_seconds = NoTTL
          THEN {[k \in AllKeys |-> BadBytes]} ELSE {})

OrchInit ==
    /\ \E config \in Configs : \E dir \in StartDirs(config) : OrchAtRestWith(config, dir)
    /\ ClsIdle
    /\ HttpIdle
    /\ CacheIdle
    /\ ExtIdle

(***************************************************************************)
(* analyze_with_cache, one loop pass per step.  The cache object and the   *)
(* TTL are those the behaviour started with; the article list,             *)
(* include_reasons, the API key and the batch size are chosen per call.    *)
(* The clock does not move while a call is in progress.                    *)
(***************************************************************************)
DiskOk == args.cache = "ok"

Start(articles, include_reasons, api_key, batch_size) ==
    /\ pc = "idle"
    /\ runs < MaxRuns
    /\ prev' = [returned |-> outcome.kind = "returned",
                 include_reasons |-> args.include_reasons,
                 same_args |-> /\ articles = args.articles
                               /\ api_key = args.api_key
                               /\ batch_size = args.batch_size,
                 complete |-> \A i \in 1..Len(args.articles) :
                                 \/ args.articles[i] \in DOMAIN cached_results
                                 \/ FreshById(fresh_results, args.articles[i]) # NoResult,
                 all_reasoned |-> \A i \in 1..Len(outcome.results) :
                                     HasReason(outcome.results[i].reason),
                 oldest |-> oldest]
    /\ args' = [args EXCEPT !.articles = articles, !.include_reasons = include_reasons,
                            !.api_key = api_key, !.batch_size = batch_size]
    /\ idx' = 1
    /\ cached_results' = EmptyMap
    /\ hits' = EmptyMap
    /\ to_analyze' = <<>>
    /\ fresh_results' = <<>>
    /\ offset' = 0
    /\ outcome' = NoOutcome
    /\ log' = <<>>
    /\ oldest' = now
    /\ runs' = runs + 1
    /\ pc' = IF articles = <<>> THEN "classify" ELSE "lookup"
    /\ UNCHANGED <<files, now>>
    /\ UNCHANGED <<clsVars, httpVars, cacheVars, extVars>>

\* The pass without the write of a hit found under another key
LookupPass_NoWarmForward(a, openai) ==
    LET cands == Candidates(openai, Ticker, args.include_reasons, a)
    IN IF args.cache = "none"
       THEN /\ to_analyze' = Append(to_analyze, a)
            /\ UNCHANGED <<files, cached_results, hits, log, oldest>>
       ELSE LET p == Probe(files, cands, 1, a, args.cache_ttl_seconds, now, DiskOk)
                gets == [i \in 1..Len(p.read) |-> Get(p.read[i])]
            IN IF p.used = 0
               THEN /\ to_analyze' = Append(to_analyze, a)
                    /\ files' = p.dir
                    /\ log' = log \o gets
                    /\ UNCHANGED <<cached_results, hits, oldest>>
               ELSE /\ cached_results' =
                           [k \in DOMAIN cached_results \cup {a} |->
                               IF k = a THEN p.result ELSE cached_results[k]]
                    /\ hits' =
                           [k \in DOMAIN hits \cup {a} |->
                               IF k = a THEN [used |-> p.used, value |-> p.value] ELSE hits[k]]
                    /\ files' = p.dir
                    /\ log' = log \o gets
                    /\ oldest' = Min(oldest, p.created_at)
                    /\ UNCHANGED to_analyze

\* One pass of the loop `for a in articles`
LookupPass(a, openai) ==
    LET cands == Candidates(openai, Ticker, args.include_reasons, a)
        primary_key == cands[1].key
    IN IF args.cache = "none"
       THEN /\ to_analyze' = Append(to_analyze, a)
            /\ UNCHANGED <<files, cached_results, hits, log, oldest>>
       ELSE LET p == Probe(files, cands, 1, a, args.cache_ttl_seconds, now, DiskOk)
                gets == [i \in 1..Len(p.read) |-> Get(p.read[i])]
            IN IF p.used = 0
               THEN /\ to_analyze' = Append(to_analyze, a)
                    /\ files' = p.dir
                    /\ log' = log \o gets
                    /\ UNCHANGED <<cached_results, hits, oldest>>
               ELSE /\ cached_results' =
                           [k \in DOMAIN cached_results \cup {a} |->
                               IF k = a THEN p.result ELSE cached_results[k]]
                    /\ hits' =
                           [k \in DOMAIN hits \cup {a} |->
                               IF k = a THEN [used |-> p.used, value |-> p.value] ELSE hits[k]]
                    /\ IF cands[p.used].key # primary_key
                       THEN /\ files' = CacheSet(p.dir, primary_key, to_dict(p.result), now, DiskOk)
                            /\ log' = log \o gets \o <<Set(primary_key)>>
                            /\ oldest' = oldest
                       ELSE /\ files' = p.dir
                            /\ log' = log \o gets
                            /\ oldest' = Min(oldest, p.created_at)
                    /\ UNCHANGED to_analyze

\* The pass of the article at idx; a cache.get that raises ends the call
Lookup ==
    /\ pc = "lookup"
    /\ LET a == args.articles[idx]
           openai == OpenAIConfig(args.api_key)
           p == Probe(files, Candidates(openai, Ticker, args.include_reasons, a), 1, a,
                      args.cache_ttl_seconds, now, DiskOk)
       IN IF args.cache # "none" /\ p.raised
          THEN /\ pc' = "idle"
               /\ outcome' = [kind |-> "raised", results |-> <<>>,
                              error |-> "UnicodeDecodeError"]
               /\ files' = p.dir
               /\ log' = log \o [i \in 1..Len(p.read) |-> Get(p.read[i])]
               /\ UNCHANGED <<idx, cached_results, hits, to_analyze, oldest>>
          ELSE /\ LookupPass(a, openai)
               /\ idx' = idx + 1
               /\ pc' = IF idx = Len(args.articles) THEN "classify" ELSE "lookup"
               /\ UNCHANGED outcome
    /\ UNCHANGED <<now, args, fresh_results, offset, prev, runs>>
    /\ UNCHANGED <<clsVars, httpVars, cacheVars, extVars>>

\* The slice taken one article too long
Batch_Overlapping == PySlice(to_analyze, offset, offset + args.batch_size + 1)

\* batch = to_analyze[i : i + batch_size]
Batch == PySlice(to_analyze, offset, offset + args.batch_size)

\* The result of a batch written to the cache as soon as it is there
ClassifyBatch_WritesAtOnce(reply) ==
    /\ pc = "classify"
    /\ offset < Len(to_analyze)
    /\ LET r == analyze_articles_with_openai(args.api_key, Batch, args.include_reasons, reply)
       IN /\ log' = Append(log, Classify(Batch))
          /\ IF r.kind = "raise"
             THEN /\ pc' = "idle"
                  /\ outcome' = [kind |-> "raised", results |-> <<>>, error |-> r.error]
                  /\ UNCHANGED <<fresh_results, offset, files>>
             ELSE /\ fresh_results' = fresh_results \o r.results
                  /\ offset' = offset + Max(1, args.batch_size)
                  /\ files' = IF r.results = <<>> \/ args.cache = "none" THEN files
                               ELSE CacheSet(files,
                                             cache_key(OpenAIConfig(args.api_key), Ticker,
                                                       PromptVersion(args.include_reasons),
                                                       r.results[1].article_id),
                                             to_dict(r.results[1]), now, DiskOk)
                  /\ UNCHANGED <<pc, outcome>>
    /\ UNCHANGED <<now, args, idx, cached_results, hits, to_analyze, oldest, prev, runs>>
    /\ UNCHANGED <<clsVars, httpVars, cacheVars, extVars>>

\* The batch loop entered once more, with nothing left to analyze
ClassifyBatch_OnceMore(reply) ==
    /\ pc = "classify"
    /\ offset <= Len(to_analyze)
    /\ LET r == analyze_articles_with_openai(args.api_key, Batch, args.include_reasons, reply)
       IN /\ log' = Append(log, Classify(Batch))
          /\ IF r.kind = "raise"
             THEN /\ pc' = "idle"
                  /\ outcome' = [kind |-> "raised", results |-> <<>>, error |-> r.error]
                  /\ UNCHANGED <<fresh_results, offset>>
             ELSE /\ fresh_results' = fresh_results \o r.results
                  /\ offset' = offset + Max(1, args.batch_size)
                  /\ UNCHANGED <<pc, outcome>>
    /\ UNCHANGED <<files, now, args, idx, cached_results, hits, to_analyze, oldest, prev, runs>>
    /\ UNCHANGED <<clsVars, httpVars, cacheVars, extVars>>

\* One pass of the loop `for i in range(0, len(to_analyze), max(1, batch_size))`
ClassifyBatch(reply) ==
    /\ pc = "classify"
    /\ offset < Len(to_analyze)
    /\ LET r == analyze_articles_with_openai(args.api_key, Batch, args.include_reasons, reply)
       IN /\ log' = Append(log, Classify(Batch))
          /\ IF r.kind = "raise"
             THEN /\ pc' = "idle"
                  /\ outcome' = [kind |-> "raised", results |-> <<>>, error |-> r.error]
                  /\ UNCHANGED <<fresh_results, offset>>
             ELSE /\ fresh_results' = fresh_results \o r.results
                  /\ offset' = offset + Max(1, args.batch_size)
                  /\ UNCHANGED <<pc, outcome>>
    /\ UNCHANGED <<files, now, args, idx, cached_results, hits, to_analyze, oldest, prev, runs>>
    /\ UNCHANGED <<clsVars, httpVars, cacheVars, extVars>>

\* `for r in fresh_results: cache.set(cache_key(prompt_version, r.article_id), ...)`
RECURSIVE WriteFresh(_, _, _)
WriteFresh(dir, results, openai) ==
    IF results = <<>> THEN dir
    ELSE WriteFresh(
            CacheSet(dir,
                     cache_key(openai, Ticker, PromptVersion(args.include_reasons),
                               Head(results).article_id),
                     to_dict(Head(results)), now, DiskOk),
            Tail(results), openai)

\* The return without the cache writes of the fresh results
Finish_NoWrites ==
    /\ pc = "classify"
    /\ offset >= Len(to_analyze)
    /\ IF args.cache = "none"
       THEN UNCHANGED <<files, log>>
       ELSE /\ files' = files
            /\ log' = log \o [i \in 1..Len(fresh_results) |->
                        Set(cache_key(OpenAIConfig(args.api_key), Ticker,
                                      PromptVersion(args.include_reasons),
                                      fresh_results[i].article_id))]
    /\ outcome' = [kind |-> "returned",
                   results |-> Merged(args.articles, cached_results, fresh_results),
                   error |-> ""]
    /\ pc' = "idle"
    /\ UNCHANGED <<now, args, idx, cached_results, hits, to_analyze, fresh_results, offset,
                   oldest, prev, runs>>
    /\ UNCHANGED <<clsVars, httpVars, cacheVars, extVars>>

\* After the batch loop: the cache writes, the merge and the return
Finish ==
    /\ pc = "classify"
    /\ offset >= Len(to_analyze)
    /\ IF args.cache = "none"
       THEN UNCHANGED <<files, log>>
       ELSE /\ files' = WriteFresh(files, fresh_results, OpenAIConfig(args.api_key))
            /\ log' = log \o [i \in 1..Len(fresh_results) |->
                        Set(cache_key(OpenAIConfig(args.api_key), Ticker,
                                      PromptVersion(args.include_reasons),
                                      fresh_results[i].article_id))]
    /\ outcome' = [kind |-> "returned",
                   results |-> Merged(args.articles, cached_results, fresh_results),
                   error |-> ""]
    /\ pc' = "idle"
    /\ UNCHANGED <<now, args, idx, cached_results, hits, to_analyze, fresh_results, offset,
                   oldest, prev, runs>>
    /\ UNCHANGED <<clsVars, httpVars, cacheVars, extVars>>

\* Time passes between calls.  With ttl_seconds=None, or without a working
\* cache, nothing reads an entry's age: the clock is left at rest.
Tick ==
    /\ pc = "idle"
    /\ now < MaxTime
    /\ args.cache = "ok"
    /\ args.cache_ttl_seconds # NoTTL
    /\ now' = now + 1
    /\ UNCHANGED <<files, pc, args, idx, cached_results, hits, to_analyze, fresh_results,
                   offset, outcome, log, oldest, prev, runs>>
    /\ UNCHANGED <<clsVars, httpVars, cacheVars, extVars>>

OrchNext ==
    \/ \E articles \in ArticleLists, include_reasons \in BOOLEAN, api_key \in ApiKeys,
          batch_size \in BatchSizes :
          Start(articles, include_reasons, api_key, batch_size)
    \/ Lookup
    \/ \E reply \in RepliesFor(Batch) : ClassifyBatch(reply)
    \/ Finish
    \/ Tick

vars == <<orchVars, clsVars, httpVars, cacheVars, extVars>>

Init == OrchInit

Next == OrchNext

Spec == Init /\ [][Next]_vars

(***************************************************************************)
(* The last call of analyze_with_cache on a cache directory that earlier   *)
(* calls, of this and of earlier versions of the program, have written:    *)
(* the files of a1's four candidate keys hold nothing or an entry.         *)
(***************************************************************************)
\* Entries found in the directory: one with a reason and a score of the
\* wrong sign, one without a reason, one of another article
SeedReasoned == Dict(Str("a1"), Str("positive"), Num(-80), Num(90), Str("r"))
SeedBare == Dict(Str("a1"), Str("negative"), Num(60), Num(80), Null)
SeedForeign == Dict(Str("a2"), Str("positive"), Num(70), Num(90), Str("r"))

SeedFiles == {NoFile, Entry(0, SeedReasoned), Entry(0, SeedBare), Entry(0, SeedForeign)}

KeysOf(id) ==
    UNION {{cache_key(OpenAIConfig("k"), Ticker, pv, id),
            legacy_key(OpenAIConfig("k"), Ticker, pv, id)} :
           pv \in {prompt_version_no_reasons, prompt_version_with_reasons}}

SeededDirs ==
    {dir \in [AllKeys -> SeedFiles] : \A k \in AllKeys \ KeysOf("a1") : dir[k] = NoFile}

SeededTTLs == {NoTTL, 0, MaxTime}

SeededLists == {<<"a1">>, <<"a2", "a1">>}

SeededInit ==
    /\ \E dir \in SeededDirs, t \in SeededTTLs :
          OrchAtRestAfter([NoArgs EXCEPT !.cache = "ok", !.cache_ttl_seconds = t], dir,
                          MaxRuns - 1)
    /\ ClsIdle
    /\ HttpIdle
    /\ CacheIdle
    /\ ExtIdle

SeededNext ==
    \/ \E articles \in SeededLists, include_reasons \in BOOLEAN :
          Start(articles, include_reasons, "k", 1)
    \/ Lookup
    \/ \E reply \in RepliesFor(Batch) : ClassifyBatch(reply)
    \/ Finish
    \/ Tick

SpecSeeded == SeededInit /\ [][SeededNext]_vars

(***************************************************************************)
(* A call on such a directory that a classification call ends, and the     *)
(* same call made again, at once or after the clock has moved.             *)
(***************************************************************************)
\* The entry of the second call: Start with the arguments of the first
Retry ==
    /\ pc = "idle"
    /\ outcome.kind = "raised"
    /\ outcome.error # "UnicodeDecodeError"
    /\ failed_run = NoFailedRun
    /\ failed_run' = [kind |-> "failed", unserved |-> to_analyze, oldest |-> oldest,
                      sets |-> SelectSeq(log, LAMBDA e : e.op = "set")]
    /\ prev' = [returned |-> FALSE,
                 include_reasons |-> args.include_reasons,
                 same_args |-> TRUE,
                 complete |-> \A i \in 1..Len(args.articles) :
                                 \/ args.articles[i] \in DOMAIN cached_results
                                 \/ FreshById(fresh_results, args.articles[i]) # NoResult,
                 all_reasoned |-> TRUE,
                 oldest |-> oldest]
    /\ idx' = 1
    /\ cached_results' = EmptyMap
    /\ hits' = EmptyMap
    /\ to_analyze' = <<>>
    /\ fresh_results' = <<>>
    /\ offset' = 0
    /\ outcome' = NoOutcome
    /\ log' = <<>>
    /\ oldest' = now
    /\ runs' = runs + 1
    /\ pc' = "lookup"
    /\ UNCHANGED <<files, now, args>>
    /\ UNCHANGED <<clsVars, httpVars, cacheVars, normVars, sumVars, rssVars, cliVars, keyVars,
                   pairVars>>

RetryInit ==
    /\ \E dir \in SeededDirs, t \in SeededTTLs :
          OrchAtRestAfter([NoArgs EXCEPT !.cache = "ok", !.cache_ttl_seconds = t], dir,
                          MaxRuns - 1)
    /\ ClsIdle
    /\ HttpIdle
    /\ CacheIdle
    /\ ExtIdle

RetryNext ==
    \/ \E articles \in SeededLists, include_reasons \in BOOLEAN :
          Start(articles, include_reasons, "k", 1)
    \/ Lookup
    \/ \E reply \in RepliesFor(Batch) : ClassifyBatch(reply)
    \/ Finish
    \/ Tick
    \/ Retry

SpecRetry == RetryInit /\ [][RetryNext]_vars

(***************************************************************************)
(* Two calls on one cache that starts empty, each for one article and      *)
(* with its own ticker and configuration: the first classifies its         *)
(* article and writes the result, the second looks its article up.         *)
(***************************************************************************)
BaseUrls ==
    {<<"http", ":", "//a">>, <<"http", ":", "//a", "/">>, <<"http", ":", "//a", ":", "b">>}

Models == {<<"m">>, <<"b", ":", "m">>}

\* 0.2, 0.2000001 and 0.3, in units of 1e-7
Temperatures == {2000000, 2000001, 3000000}

MaxOutputTokens == {900, 901}

Tickers == {<<"TSLA">>, <<"AAPL">>}

Requests ==
    [ticker : Tickers, article_id : Ids, include_reasons : BOOLEAN,
     openai : [api_key : {"k"}, model : Models, base_url : BaseUrls,
               temperature : Temperatures, max_output_tokens : MaxOutputTokens]]

\* The first call: no candidate is in the cache, the article is classified
\* and its result written under the primary key
FirstCall(request) ==
    /\ stored = NotCalled
    /\ stored' =
          [kind |-> "stored", request |-> request,
           key |-> cache_key(request.openai, request.ticker,
                             PromptVersion(request.include_reasons), request.article_id),
           value |-> to_dict(ArticleSentiment(request.article_id, "positive", 70, 90,
                                              Str("r")))]
    /\ UNCHANGED <<probed, normVars, sumVars, rssVars, cliVars, retryVars, pairVars>>
    /\ UNCHANGED <<orchVars, clsVars, httpVars, cacheVars>>

\* The second call: the lookup of its article among its candidates
SecondCall(request) ==
    /\ stored # NotCalled
    /\ probed = NotCalled
    /\ LET cands == Candidates(request.openai, request.ticker, request.include_reasons,
                               request.article_id)
           dir == [k \in {stored.key} \cup {cands[i].key : i \in 1..Len(cands)} |->
                      IF k = stored.key THEN Entry(0, stored.value) ELSE NoFile]
           p == Probe(dir, cands, 1, request.article_id, NoTTL, 0, TRUE)
       IN probed' = [kind |-> "probed", request |-> request, used |-> p.used,
                     result |-> p.result]
    /\ UNCHANGED <<stored, normVars, sumVars, rssVars, cliVars, retryVars, pairVars>>
    /\ UNCHANGED <<orchVars, clsVars, httpVars, cacheVars>>

KeyInit == ExtIdle /\ OrchAtRest(NoArgs) /\ ClsIdle /\ HttpIdle /\ CacheIdle

KeyNext ==
    \/ \E request \in Requests : FirstCall(request)
    \/ \E request \in Requests : SecondCall(request)

SpecKeys == KeyInit /\ [][KeyNext]_vars

(***************************************************************************)
(* One raw entry on both paths: found in the cache under the primary key   *)
(* of a1, and returned by the classification service for a1.               *)
(***************************************************************************)
CoreIdle ==
    OrchAtRest(NoArgs) /\ ClsIdle /\ HttpIdle /\ CacheIdle /\ RetryIdle /\ KeyIdle /\ PairIdle

coreVars == <<orchVars, clsVars, httpVars, cacheVars, retryVars, keyVars, pairVars>>

NormLabels == {Str("positive"), Str("negative"), Str("neutral"), Str("bullish"), Null, Compound}

NormScores ==
    {Num(-80), Num(60), Num(0), Num(250), Num(-250), Bool(TRUE), Str("0.5"), Str("x"), Null,
     NonFinite, BigInt}

NormConfidences ==
    {Num(90), Num(170), Num(-20), Bool(TRUE), Str("0.5"), Null, NonFinite, BigInt}

NormEntries ==
    {Dict(Str("a1"), l, s, c, Str("r")) : l \in NormLabels, s \in NormScores, c \in NormConfidences}

\* The exception that leaves parse_cached, "" when none does: hashing a
\* list or dict label raises TypeError, and float() of an integer beyond
\* the float range raises OverflowError, which `except (TypeError,
\* ValueError)` does not catch
parse_cached_error(article_id, value) ==
    IF ~IsDict(value) \/ value.article_id # Str(article_id) THEN ""
    ELSE IF value.label.t = "compound" THEN "TypeError"
    ELSE IF ~(IsStr(value.label) /\ value.label.s \in Labels) THEN ""
    ELSE IF value.score.t = "bigint" THEN "OverflowError"
    ELSE IF FloatParses(value.score) /\ value.confidence.t = "bigint" THEN "OverflowError"
    ELSE ""

NormInit ==
    /\ entry \in NormEntries
    /\ from_cache = NotCalled
    /\ from_model = NotCalled
    /\ SumIdle /\ RssIdle /\ CliIdle
    /\ CoreIdle

\* The pass of the lookup loop that gets the entry from the primary key
FromCache ==
    /\ from_cache = NotCalled
    /\ from_cache' =
          IF parse_cached_error("a1", entry) # ""
          THEN [kind |-> "raise", error |-> parse_cached_error("a1", entry)]
          ELSE IF parse_cached("a1", entry, TRUE) = NoResult THEN [kind |-> "miss"]
          ELSE [kind |-> "hit", result |-> parse_cached("a1", entry, TRUE)]
    /\ UNCHANGED <<entry, from_model, sumVars, rssVars, cliVars, coreVars>>

\* analyze_articles_with_openai for [a1] when the service returns the entry
FromModel ==
    /\ from_model = NotCalled
    /\ from_model' = analyze_articles_with_openai(
                         "k", <<"a1">>, TRUE, [kind |-> "results", items |-> <<entry>>])
    /\ UNCHANGED <<entry, from_cache, sumVars, rssVars, cliVars, coreVars>>

NormNext == FromCache \/ FromModel

SpecNormalize == NormInit /\ [][NormNext]_vars

(***************************************************************************)
(* summarize_sentiment.  A float is a ratio of integers, NaN, or an        *)
(* infinity; rounding is left out.  Time is in seconds.                    *)
(***************************************************************************)
Fin(num, den) == [f |-> "fin", num |-> num, den |-> den]
NaN == [f |-> "nan", num |-> 0, den |-> 1]
PosInf == [f |-> "inf", num |-> 1, den |-> 1]
NegInf == [f |-> "-inf", num |-> -1, den |-> 1]

RECURSIVE Gcd(_, _)
Gcd(a, b) == IF b = 0 THEN a ELSE Gcd(b, a % b)

\* The ratio in lowest terms, den > 0
Ratio(num, den) ==
    LET g == Gcd(Abs(num), den)
    IN Fin(num \div g, den \div g)

\* a < b; every comparison with NaN is false
Less(a, b) ==
    CASE a.f = "nan" \/ b.f = "nan" -> FALSE
      [] a.f = "inf" \/ b.f = "-inf" -> FALSE
      [] a.f = "-inf" \/ b.f = "inf" -> TRUE
      [] OTHER -> a.num * b.den < b.num * a.den

\* min(a, b) and max(a, b): the first argument unless the second is
\* smaller (larger)
PyMin(a, b) == IF Less(b, a) THEN b ELSE a
PyMax(a, b) == IF Less(a, b) THEN b ELSE a

\* a * b for a finite b >= 0
Times(a, b) ==
    CASE a.f = "fin" -> Ratio(a.num * b.num, a.den * b.den)
      [] a.f = "nan" -> NaN
      [] OTHER -> IF b.num = 0 THEN NaN ELSE a

Plus(a, b) ==
    CASE a.f = "nan" \/ b.f = "nan" -> NaN
      [] a.f = "fin" /\ b.f = "fin" -> Ratio(a.num * b.den + b.num * a.den, a.den * b.den)
      [] a.f = "fin" -> b
      [] b.f = "fin" -> a
      [] OTHER -> IF a.f = b.f THEN a ELSE NaN

\* a / b for a finite b > 0
Over(a, b) == IF a.f = "fin" THEN Ratio(a.num * b.den, a.den * b.num) ELSE a

\* sum(xs)
RECURSIVE Sum(_)
Sum(xs) == IF xs = <<>> THEN Fin(0, 1) ELSE Plus(Sum(SubSeq(xs, 1, Len(xs) - 1)), xs[Len(xs)])

\* _clamp on floats: max(low, min(high, value)), a NaN giving `high`
ClampFloat(value, low, high) == PyMax(low, PyMin(high, value))

\* published_at=None, or the age of the article in seconds, negative for
\* a time ahead of the clock
NoneTime == [known |-> FALSE, age |-> 0]
Aged(seconds) == [known |-> TRUE, age |-> seconds]

\* 0.5 ** n for a whole n: below the smallest float the result is 0.0
RECURSIVE HalfToThe(_)
HalfToThe(n) ==
    IF n > 1074 THEN Fin(0, 1)
    ELSE IF n = 0 THEN Fin(1, 1)
    ELSE Times(Fin(1, 2), HalfToThe(n - 1))

\* half_life_hours * 3600.0 is a whole number of seconds in the model
_recency_weight(published_at, half_life) ==
    IF ~published_at.known THEN Fin(1, 1)
    ELSE LET age_seconds == Max(0, published_at.age)
             half_life_seconds == PyMax(Fin(1, 1), Times(half_life, Fin(3600, 1)))
         IN HalfToThe((age_seconds * half_life_seconds.den) \div half_life_seconds.num)

\* The threshold met counts as beyond it
_label_from_score_AtThreshold(score) ==
    IF ~Less(score, Fin(15, 100)) THEN "positive"
    ELSE IF ~Less(Fin(-15, 100), score) THEN "negative"
    ELSE "neutral"

_label_from_score(score) ==
    IF Less(Fin(15, 100), score) THEN "positive"
    ELSE IF Less(score, Fin(-15, 100)) THEN "negative"
    ELSE "neutral"

_signal_from_score(score, confidence) ==
    IF Less(confidence, Fin(55, 100)) THEN "hold"
    ELSE IF Less(Fin(15, 100), score) THEN "buy"
    ELSE IF Less(score, Fin(-15, 100)) THEN "sell"
    ELSE "hold"

\* The summary with the weighted mean left as it is
summarize_sentiment_Unclamped(results, half_life) ==
    LET recency_weights ==
            [i \in 1..Len(results) |-> _recency_weight(results[i].published_at, half_life)]
        weights ==
            [i \in 1..Len(results) |->
                Times(recency_weights[i],
                      ClampFloat(results[i].confidence, Fin(0, 1), Fin(1, 1)))]
        weighted_scores == [i \in 1..Len(results) |-> Times(results[i].score, weights[i])]
        total_weight == Sum(weights)
        score == IF Less(Fin(0, 1), total_weight)
                 THEN Over(Sum(weighted_scores), total_weight) ELSE Fin(0, 1)
        total_recency == Sum(recency_weights)
        confidence == ClampFloat(
                          IF Less(Fin(0, 1), total_recency)
                          THEN Over(total_weight, total_recency) ELSE Fin(0, 1),
                          Fin(0, 1), Fin(1, 1))
    IN [score |-> score, label |-> _label_from_score(score), confidence |-> confidence,
        signal |-> _signal_from_score(score, confidence),
        articles_analyzed |-> Len(results)]

\* The summary with every weight the recency weight alone
summarize_sentiment_IgnoresConfidence(results, half_life) ==
    LET recency_weights ==
            [i \in 1..Len(results) |-> _recency_weight(results[i].published_at, half_life)]
        weights == recency_weights
        weighted_scores == [i \in 1..Len(results) |-> Times(results[i].score, weights[i])]
        total_weight == Sum(weights)
        score == ClampFloat(
                     IF Less(Fin(0, 1), total_weight)
                     THEN Over(Sum(weighted_scores), total_weight) ELSE Fin(0, 1),
                     Fin(-1, 1), Fin(1, 1))
        total_recency == Sum(recency_weights)
        confidence == ClampFloat(
                          IF Less(Fin(0, 1), total_recency)
                          THEN Over(total_weight, total_recency) ELSE Fin(0, 1),
                          Fin(0, 1), Fin(1, 1))
    IN [score |-> score, label |-> _label_from_score(score), confidence |-> confidence,
        signal |-> _signal_from_score(score, confidence),
        articles_analyzed |-> Len(results)]

summarize_sentiment(results, half_life) ==
    LET recency_weights ==
            [i \in 1..Len(results) |-> _recency_weight(results[i].published_at, half_life)]
        weights ==
            [i \in 1..Len(results) |->
                Times(recency_weights[i],
                      ClampFloat(results[i].confidence, Fin(0, 1), Fin(1, 1)))]
        weighted_scores == [i \in 1..Len(results) |-> Times(results[i].score, weights[i])]
        total_weight == Sum(weights)
        score == ClampFloat(
                     IF Less(Fin(0, 1), total_weight)
                     THEN Over(Sum(weighted_scores), total_weight) ELSE Fin(0, 1),
                     Fin(-1, 1), Fin(1, 1))
        total_recency == Sum(recency_weights)
        confidence == ClampFloat(
                          IF Less(Fin(0, 1), total_recency)
                          THEN Over(total_weight, total_recency) ELSE Fin(0, 1),
                          Fin(0, 1), Fin(1, 1))
    IN [score |-> score, label |-> _label_from_score(score), confidence |-> confidence,
        signal |-> _signal_from_score(score, confidence),
        articles_analyzed |-> Len(results)]

\* The longest result list
MaxResults == 2

SumScores == {Fin(3, 20), Fin(-4, 5), Fin(3, 1), NaN, PosInf, NegInf}

SumConfidences == {Fin(11, 20), Fin(1, 2), Fin(0, 1), Fin(-1, 5), NaN}

SumTimes == {NoneTime, Aged(3600)}

\* half_life_hours: one hour, and 0, for which half_life_seconds is 1.0
HalfLives == {Fin(1, 1), Fin(0, 1)}

SumResults == [score : SumScores, confidence : SumConfidences, published_at : SumTimes]

SumInit ==
    /\ scored \in UNION {[1..n -> SumResults] : n \in 0..MaxResults}
    /\ half_life_hours \in HalfLives
    /\ summary = NotCalled
    /\ NormIdle /\ RssIdle /\ CliIdle
    /\ CoreIdle

Summarize ==
    /\ summary = NotCalled
    /\ summary' = summarize_sentiment(scored, half_life_hours)
    /\ UNCHANGED <<scored, half_life_hours, normVars, rssVars, cliVars, coreVars>>

SumNext == Summarize

SpecSummarize == SumInit /\ [][SumNext]_vars

(***************************************************************************)
(* fetch_google_news_rss.  A datetime is its wall-clock time in hours and  *)
(* its UTC offset in hours, or is naive; a pubDate is the text of the      *)
(* element by what parsedate_to_datetime makes of it.                      *)
(***************************************************************************)
Aware(wall, utcoffset) == [kind |-> "datetime", wall |-> wall, offset |-> utcoffset, aware |-> TRUE]
Naive(wall) == [kind |-> "datetime", wall |-> wall, offset |-> 0, aware |-> FALSE]

\* dt.replace(tzinfo=timezone.utc)
AsUtc(dt) == Aware(dt.wall, 0)

\* The instant of an aware datetime, which `<` compares
Instant(dt) == dt.wall - dt.offset

\* <pubDate>: missing, not a date, a date whose day number is beyond a C
\* long, or a date
NoPubDate == [kind |-> "missing"]
NotADate == [kind |-> "garbage"]
HugeDay == [kind |-> "overflow"]

\* None for a missing or unparsable text, the datetime otherwise, made
\* aware; "raise" when parsedate_to_datetime raises OverflowError, which
\* `except (TypeError, ValueError)` does not catch
_parse_pubdate(value) ==
    CASE value.kind = "missing" -> NoCutoff
      [] value.kind = "garbage" -> NoCutoff
      [] value.kind = "overflow" -> [kind |-> "raise"]
      [] OTHER -> IF value.aware THEN value ELSE AsUtc(value)

\* _clean_html: the text without its tags; "<b>" is a description made of
\* tags only
_clean_html(text) == IF text = "<b>" THEN "" ELSE text

\* The loop over the items from position k, with `<=` for `<`
RECURSIVE RssItems_DropsAtCutoff(_, _, _)
RssItems_DropsAtCutoff(items, k, cutoff) ==
    IF k > Len(items) THEN [kind |-> "ok", articles |-> <<>>]
    ELSE LET item == items[k]
             published_at == _parse_pubdate(item.pubDate)
             rest == RssItems_DropsAtCutoff(items, k + 1, cutoff)
         IN IF published_at.kind = "raise" THEN [kind |-> "raise", error |-> "OverflowError"]
            ELSE IF \/ /\ cutoff # NoCutoff
                          /\ published_at # NoCutoff
                          /\ Instant(published_at) <= Instant(cutoff)
                       \/ (item.title = "" /\ _clean_html(item.description) = "")
                 THEN rest
            ELSE IF rest.kind = "raise" THEN rest
            ELSE [kind |-> "ok",
                  articles |-> <<[title |-> item.title,
                                  description |-> _clean_html(item.description),
                                  url |-> item.link,
                                  published_at |-> published_at]>> \o rest.articles]

\* The loop `for item in root.findall(".//item")` from position k
RECURSIVE RssItems(_, _, _)
RssItems(items, k, cutoff) ==
    IF k > Len(items) THEN [kind |-> "ok", articles |-> <<>>]
    ELSE LET item == items[k]
             published_at == _parse_pubdate(item.pubDate)
             rest == RssItems(items, k + 1, cutoff)
         IN IF published_at.kind = "raise" THEN [kind |-> "raise", error |-> "OverflowError"]
            ELSE IF \/ /\ cutoff # NoCutoff
                          /\ published_at # NoCutoff
                          /\ Instant(published_at) < Instant(cutoff)
                       \/ (item.title = "" /\ _clean_html(item.description) = "")
                 THEN rest
            ELSE IF rest.kind = "raise" THEN rest
            ELSE [kind |-> "ok",
                  articles |-> <<[title |-> item.title,
                                  description |-> _clean_html(item.description),
                                  url |-> item.link,
                                  published_at |-> published_at]>> \o rest.articles]

fetch_google_news_rss(reply, cutoff) ==
    CASE reply.kind = "error" -> [kind |-> "raise", error |-> "RemoteApiError"]
      [] reply.kind = "invalid_xml" -> [kind |-> "raise", error |-> "ParseError"]
      [] OTHER ->
           RssItems(reply.items, 1,
                    IF cutoff # NoCutoff /\ ~cutoff.aware THEN AsUtc(cutoff) ELSE cutoff)

\* The longest feed
MaxFeed == 2

PubDates ==
    {NoPubDate, NotADate, HugeDay, Aware(9, 0), Aware(10, 0), Aware(11, 2), Naive(10)}

\* The item at position k of a feed; its <link> is its own
RssItemsAt(k) ==
    [title : {"", "T"}, description : {"", "<b>", "d"}, pubDate : PubDates, link : {k}]

Feeds ==
    {Rss(items) :
        items \in UNION {{f \in [1..n -> UNION {RssItemsAt(k) : k \in 1..n}] :
                              \A k \in 1..n : f[k].link = k} : n \in 0..MaxFeed}}
    \cup {[kind |-> "invalid_xml"], [kind |-> "error"]}

Cutoffs == {NoCutoff, Naive(10), Aware(12, 2)}

RssInit ==
    /\ feed \in Feeds
    /\ from_datetime \in Cutoffs
    /\ fetched = NotCalled
    /\ NormIdle /\ SumIdle /\ CliIdle
    /\ CoreIdle

FetchRss ==
    /\ fetched = NotCalled
    /\ fetched' = fetch_google_news_rss(feed, from_datetime)
    /\ UNCHANGED <<feed, from_datetime, normVars, sumVars, cliVars, coreVars>>

RssNext == FetchRss

SpecRss == RssInit /\ [][RssNext]_vars

(***************************************************************************)
(* The analyze command of the CLI, from the choice of the source on.  Its  *)
(* steps are the calls it waits for: the NewsAPI fetch, the Google News    *)
(* RSS fetch and analyze_with_cache.                                       *)
(***************************************************************************)
\* An article by the two fields the command reads; a url of None is ""
Article(article_id, url) == [article_id |-> article_id, url |-> url]

\* The most articles a fetch returns
MaxFetched == 2

FetchedArticles == {Article("a", "u1"), Article("b", "u1"), Article("a", "")}

FetchedLists == UNION {[1..n -> FetchedArticles] : n \in 0..MaxFetched}

\* How a fetch ends
FetchOutcomes ==
    {[kind |-> "ok", articles |-> l] : l \in FetchedLists}
    \cup {[kind |-> "RemoteApiError", articles |-> <<>>],
          [kind |-> "ParseError", articles |-> <<>>]}

Fetched(source, ending) ==
    [source |-> source, kind |-> ending.kind, articles |-> ending.articles]

CliRaise(error) == [kind |-> "raise", error |-> error]

\* `for a in articles`: the first article of each url, or of each id where
\* there is no url, until there are max(1, --max-articles) of them
RECURSIVE Dedupe(_, _, _, _)
Dedupe(articles, seen, kept, most) ==
    IF articles = <<>> \/ Len(kept) >= Max(1, most) THEN kept
    ELSE LET a == Head(articles)
             key == IF a.url # "" THEN a.url ELSE a.article_id
         IN IF key \in seen THEN Dedupe(Tail(articles), seen, kept, most)
            ELSE Dedupe(Tail(articles), seen \cup {key}, Append(kept, a), most)

CliArgv ==
    [source : {"auto", "newsapi", "google-rss"}, newsapi_key : {"", "y"},
     openai_key : {"", "x"}, no_cache : BOOLEAN, max_articles : {1, 2}]

CliInit ==
    /\ argv \in CliArgv
    /\ cli_pc = "idle"
    /\ source_used = ""
    /\ fetches = <<>>
    /\ unique = <<>>
    /\ exit = NotCalled
    /\ NormIdle /\ SumIdle /\ RssIdle
    /\ CoreIdle

\* source_used from --source and NEWSAPI_KEY
ChooseSource ==
    /\ cli_pc = "idle"
    /\ LET chosen == IF argv.source = "auto"
                     THEN (IF argv.newsapi_key # "" THEN "newsapi" ELSE "google-rss")
                     ELSE argv.source
       IN /\ source_used' = chosen
          /\ IF chosen = "newsapi" /\ argv.newsapi_key = ""
             THEN cli_pc' = "done" /\ exit' = CliRaise("ConfigurationError")
             ELSE cli_pc' = chosen /\ exit' = exit
    /\ UNCHANGED <<argv, fetches, unique, normVars, sumVars, rssVars, coreVars>>

\* From the articles of a fetch to the call of analyze_with_cache
AfterFetch(articles) ==
    /\ unique' = Dedupe(articles, {}, <<>>, argv.max_articles)
    /\ IF argv.openai_key = "" /\ argv.no_cache /\ unique' # <<>>
       THEN cli_pc' = "done" /\ exit' = CliRaise("ConfigurationError")
       ELSE cli_pc' = "analyze" /\ exit' = exit

\* fetch_everything returns or raises, and the fallback is taken whatever
\* --source is
FetchEverything_AlwaysFallsBack(ending) ==
    /\ cli_pc = "newsapi"
    /\ fetches' = Append(fetches, Fetched("newsapi", ending))
    /\ CASE ending.kind = "ok" -> AfterFetch(ending.articles) /\ source_used' = source_used
         [] ending.kind = "RemoteApiError" ->
              /\ source_used' = "google-rss"
              /\ cli_pc' = "google-rss"
              /\ UNCHANGED <<unique, exit>>
         [] OTHER ->
              /\ cli_pc' = "done"
              /\ exit' = CliRaise(ending.kind)
              /\ UNCHANGED <<unique, source_used>>
    /\ UNCHANGED <<argv, normVars, sumVars, rssVars, coreVars>>

\* fetch_everything returns or raises
FetchEverything(ending) ==
    /\ cli_pc = "newsapi"
    /\ fetches' = Append(fetches, Fetched("newsapi", ending))
    /\ CASE ending.kind = "ok" -> AfterFetch(ending.articles) /\ source_used' = source_used
         [] ending.kind = "RemoteApiError" /\ argv.source = "auto" ->
              /\ source_used' = "google-rss"
              /\ cli_pc' = "google-rss"
              /\ UNCHANGED <<unique, exit>>
         [] OTHER ->
              /\ cli_pc' = "done"
              /\ exit' = CliRaise(ending.kind)
              /\ UNCHANGED <<unique, source_used>>
    /\ UNCHANGED <<argv, normVars, sumVars, rssVars, coreVars>>

\* fetch_google_news_rss returns or raises
FetchGoogleNewsRss(ending) ==
    /\ cli_pc = "google-rss"
    /\ fetches' = Append(fetches, Fetched("google-rss", ending))
    /\ IF ending.kind = "ok" THEN AfterFetch(ending.articles)
       ELSE /\ cli_pc' = "done"
            /\ exit' = CliRaise(ending.kind)
            /\ unique' = unique
    /\ UNCHANGED <<argv, source_used, normVars, sumVars, rssVars, coreVars>>

\* analyze_with_cache returns the summary, which is printed with the source,
\* or raises
AnalyzeAndReport(error) ==
    /\ cli_pc = "analyze"
    /\ cli_pc' = "done"
    /\ exit' = IF error = "" THEN [kind |-> "return", code |-> 0, source |-> source_used,
                                   analyzed |-> unique]
               ELSE CliRaise(error)
    /\ UNCHANGED <<argv, source_used, fetches, unique, normVars, sumVars, rssVars, coreVars>>

CliNext ==
    \/ ChooseSource
    \/ \E ending \in FetchOutcomes : FetchEverything(ending)
    \/ \E ending \in FetchOutcomes : FetchGoogleNewsRss(ending)
    \/ \E error \in {"", "ConfigurationError", "RemoteApiError", "ParseError"} :
          AnalyzeAndReport(error)

SpecCli == CliInit /\ [][CliNext]_vars

(***************************************************************************)
(* analyze_articles_with_openai on its own: the arguments and the output   *)
(* of the model are drawn at the start, the call is one step.              *)
(***************************************************************************)
\* The length of the longest results array
MaxItems == 2

\* Entries of a results array: valid ones, in and out of range and with the
\* sign against the label, and entries with one field the validation
\* rejects or cannot handle
RawItems ==
    { Dict(Str("a1"), Str("positive"), Num(70), Num(90), Str("r")),
      Dict(Str("a1"), Str("negative"), Num(250), Num(150), Null),
      Dict(Str("a2"), Str("neutral"), Num(-40), Num(-10), Str(" ")),
      Dict(Str("a2"), Str("positive"), Num(-70), Num(90), Str("long")),
      Dict(Str("a2"), Str("negative"), Num(-30), Num(40), Str("r")),
      Dict(Str("zz"), Str("positive"), Num(70), Num(90), Str("r")),
      Dict(Str("zz"), Compound, Num(70), Num(90), Str("r")),
      Dict(Str(""), Str("positive"), Num(70), Num(90), Str("r")),
      Dict(Num(1), Str("positive"), Num(70), Num(90), Str("r")),
      Dict(Str("a1"), Str("bullish"), Num(70), Num(90), Str("r")),
      Dict(Str("a1"), Compound, Num(70), Num(90), Str("r")),
      Dict(Str("a1"), Str("positive"), BigInt, Num(90), Str("r")),
      Dict(Str("a1"), Str("negative"), NonFinite, Num(90), Str("r")),
      Dict(Str("a1"), Str("positive"), Str("0.5"), Num(90), Str("r")),
      Dict(Str("a1"), Str("positive"), Bool(TRUE), Num(90), Num(3)),
      Dict(Str("a2"), Str("negative"), Num(60), NonFinite, Str("r")),
      Dict(Str("a2"), Str("negative"), Num(60), BigInt, Str("r")),
      Str("a1") }

RawResults == UNION {[1..n -> RawItems] : n \in 0..MaxItems}

Replies ==
    {[kind |-> "results", items |-> items] : items \in RawResults}
        \cup {[kind |-> k] : k \in {"no_text", "not_json", "non_object", "no_results"}}
        \cup {[kind |-> "error", error |-> "RemoteApiError"]}

ClsInit ==
    /\ call \in [api_key : ApiKeys, articles : ArticleLists, include_reasons : BOOLEAN,
                 reply : Replies]
    /\ returned = NotCalled
    /\ OrchAtRest(NoArgs)
    /\ HttpIdle
    /\ CacheIdle
    /\ ExtIdle

CallClassifier ==
    /\ returned = NotCalled
    /\ returned' = analyze_articles_with_openai(call.api_key, call.articles,
                                                call.include_reasons, call.reply)
    /\ UNCHANGED <<call, orchVars, extVars, httpVars, cacheVars>>

ClsNext == CallClassifier

SpecClassify == ClsInit /\ [][ClsNext]_vars

(***************************************************************************)
(* The transport.  A URL is its part before the "?" and the sequence of    *)
(* its query parameters as written; the text of a RemoteApiError is the    *)
(* record of the pieces its f-string puts together, the detail being the   *)
(* sequence of its words.                                                  *)
(***************************************************************************)
_REDACTED_QUERY_KEYS ==
    {"apikey", "api_key", "access_token", "auth", "authorization", "key", "token"}

Param(key, value) == [key |-> key, value |-> value]

\* key.lower()
Lower(key) ==
    CASE key = "apiKey" -> "apikey"
      [] key = "Token" -> "token"
      [] OTHER -> key

\* The percent-decoding of parse_qsl and the quoting of urlencode
Unquote(text) == IF text = "a%20b" THEN "a b" ELSE text
Quote(text) == IF text = "a b" THEN "a+b" ELSE text

IsSecretKey(key) == Lower(key) \in _REDACTED_QUERY_KEYS

_redact_url(url) ==
    LET parsed == [i \in 1..Len(url.query) |->
                      Param(Unquote(url.query[i].key), Unquote(url.query[i].value))]
        updated == [i \in 1..Len(parsed) |->
                      IF IsSecretKey(parsed[i].key) THEN Param(parsed[i].key, "REDACTED")
                      ELSE parsed[i]]
        changed == \E i \in 1..Len(parsed) : IsSecretKey(parsed[i].key)
    IN IF url.query = <<>> \/ ~changed THEN url
       ELSE [url EXCEPT !.query = [i \in 1..Len(updated) |->
                                      Param(Quote(updated[i].key), Quote(updated[i].value))]]

\* Response bodies after decoding: nothing, a JSON object (with the words
\* of its error message, if it has one), a JSON array, string or null, text
\* that is not JSON, and a JSON number of more digits than int() converts,
\* on which json.loads raises a ValueError that is no JSONDecodeError
Body(shape, message) == [shape |-> shape, message |-> message]
Empty == Body("empty", <<>>)
JsonObject == Body("object", <<>>)
JsonArray == Body("array", <<>>)
JsonString == Body("string", <<>>)
JsonNull == Body("null", <<>>)
JsonBigNumber == Body("bignumber", <<>>)
NotJson == Body("invalid", <<>>)

\* type(parsed).__name__
TypeName(shape) ==
    CASE shape = "array" -> "list"
      [] shape = "string" -> "str"
      [] shape = "null" -> "NoneType"
      [] shape = "object" -> "dict"
ErrorObject(message) == Body("object", message)

\* The words of _extract_error_detail(body): none for an empty body, the
\* message (and code) of an error object, else the text of the body
_extract_error_detail(body) ==
    CASE body.shape = "empty" -> <<>>
      [] body.shape = "object" /\ body.message # <<>> -> body.message
      [] OTHER -> <<body.shape>>

\* Retry-After header values: "" for no header, seconds in digits, and
\* "sup2" for a digit character such as the superscript two, which
\* str.isdigit accepts and float rejects
NoRetryAfter == -1

_parse_retry_after_seconds(value) ==
    CASE value = "" -> [kind |-> "ok", seconds |-> NoRetryAfter]
      [] value = "1" -> [kind |-> "ok", seconds |-> 100]
      [] value = "2" -> [kind |-> "ok", seconds |-> 200]
      [] value = "90" -> [kind |-> "ok", seconds |-> 9000]
      [] value = "sup2" -> [kind |-> "raise", error |-> "ValueError"]

HttpResponse(status, retry_after, encoding, body) ==
    [status |-> status, retry_after |-> retry_after, encoding |-> encoding, body |-> body]

\* Content-Encoding and what the body bytes are: "identity" (no header),
\* "gzip" (a complete gzip stream), "not_gzip" (the header, on bytes that
\* are not gzip: BadGzipFile, an OSError) and "truncated" (a gzip stream
\* cut short: EOFError; a damaged one raises zlib.error likewise)
_maybe_decompress(response) ==
    CASE response.encoding = "identity" -> [kind |-> "ok", response |-> response]
      [] response.encoding = "gzip" ->
            [kind |-> "ok", response |-> [response EXCEPT !.encoding = "identity"]]
      [] response.encoding = "not_gzip" -> [kind |-> "ok", response |-> response]
      [] response.encoding = "truncated" -> [kind |-> "raise", error |-> "EOFError"]

\* What urlopen and response.read() meet: a response (read in full, of any
\* status), URLError or TimeoutError, or a connection reset while the body
\* is read
Met(kind, response) == [kind |-> kind, response |-> response]

_request(met) ==
    IF met.kind = "ConnectionResetError" THEN [kind |-> "raise", error |-> met.kind]
    ELSE LET http_response == IF met.kind = "response" THEN met.response
                              ELSE HttpResponse(0, "", "identity", Empty)
             d == _maybe_decompress(http_response)
         IN IF d.kind = "raise" THEN d
            ELSE [kind |-> "ok", response |-> d.response,
                  last_error |-> IF met.kind = "response" THEN "None" ELSE met.kind]

\* str(last_error)
StrOfError(last_error) ==
    CASE last_error = "URLError" -> <<"<urlopen error>">>
      [] last_error = "TimeoutError" -> <<"timed out">>
      [] OTHER -> <<"None">>

Transient == {0, 429, 500, 502, 503, 504}

ErrorText(url, what, status, detail) ==
    [method |-> "GET", url |-> _redact_url(url), what |-> what, status |-> status,
     detail |-> detail]

NoText == [method |-> "", url |-> [base |-> "", query |-> <<>>], what |-> "", status |-> 0,
           detail |-> <<>>]

EndedWith(kind, error, text, value) ==
    [kind |-> kind, error |-> error, text |-> text, value |-> value]

Raise(error, text) == EndedWith("raised", error, text, Empty)
Return(value) == EndedWith("returned", "", NoText, value)

\* The loop body after the retry branch without the isinstance(parsed, dict)
\* test: whatever json.loads returns is returned
Conclude_ReturnsAnyJson(fn, url, http_response, last_error) ==
    IF http_response.status < 200 \/ http_response.status >= 300
    THEN LET detail == _extract_error_detail(http_response.body)
             message == IF detail = <<>> /\ last_error # "None" THEN StrOfError(last_error)
                        ELSE detail
         IN Raise("RemoteApiError", ErrorText(url, "failed", http_response.status, message))
    ELSE IF fn = "bytes" THEN Return(http_response.body)
    ELSE CASE http_response.body.shape \in {"empty", "invalid"} ->
                Raise("RemoteApiError",
                      ErrorText(url, "returned invalid JSON", 0, <<"Expecting value">>))
           [] http_response.body.shape = "bignumber" -> Raise("ValueError", NoText)
           [] OTHER -> Return(http_response.body)

\* The loop body after the retry branch: how the call ends on a response
Conclude(fn, url, http_response, last_error) ==
    IF http_response.status < 200 \/ http_response.status >= 300
    THEN LET detail == _extract_error_detail(http_response.body)
             message == IF detail = <<>> /\ last_error # "None" THEN StrOfError(last_error)
                        ELSE detail
         IN Raise("RemoteApiError", ErrorText(url, "failed", http_response.status, message))
    ELSE IF fn = "bytes" THEN Return(http_response.body)
    ELSE CASE http_response.body.shape \in {"empty", "invalid"} ->
                Raise("RemoteApiError",
                      ErrorText(url, "returned invalid JSON", 0, <<"Expecting value">>))
           [] http_response.body.shape = "bignumber" -> Raise("ValueError", NoText)
           [] http_response.body.shape \in {"array", "string", "null"} ->
                Raise("RemoteApiError",
                      ErrorText(url, "returned unexpected JSON type", 0,
                                <<TypeName(http_response.body.shape)>>))
           [] http_response.body.shape = "object" -> Return(http_response.body)

retry_backoff_base_seconds == 75
max_retry_after_seconds == 6000

RECURSIVE Pow2(_)
Pow2(n) == IF n = 0 THEN 1 ELSE 2 * Pow2(n - 1)

\* sleep_s with the Retry-After taken whole
SleepFor_Uncapped(n, jitter, retry_after) ==
    LET backoff == retry_backoff_base_seconds * Pow2(n) + jitter
    IN IF retry_after = NoRetryAfter THEN backoff ELSE Max(backoff, retry_after)

\* sleep_s of the retry branch; jitter is random.random() * 0.25
SleepFor(n, jitter, retry_after) ==
    LET backoff == retry_backoff_base_seconds * Pow2(n) + jitter
    IN IF retry_after = NoRetryAfter THEN backoff
       ELSE Max(backoff, Min(retry_after, max_retry_after_seconds))

(***************************************************************************)
(* The inputs of the transport                                             *)
(***************************************************************************)
MaxRetries == 2

Urls ==
    {[base |-> "https://x/y", query |-> q] :
        q \in {<<Param("q", "a%20b")>>,
               <<Param("q", "a%20b"), Param("apiKey", "s1")>>,
               <<Param("q", "s1"), Param("Token", "s1")>>}}

\* The values of the secret parameters of a URL
SecretValues(url) ==
    {Unquote(url.query[i].value) : i \in {j \in 1..Len(url.query) : IsSecretKey(url.query[j].key)}}

Jitters == {0, 24}

\* What a request to `url` can meet.  A server may quote the credential it
\* was sent in its error message.
Meets(url) ==
    LET refusals == {ErrorObject(<<"Invalid", "key", v>>) : v \in SecretValues(url)}
    IN {Met("response", HttpResponse(200, "", e, b)) :
            e \in {"identity", "gzip", "not_gzip"},
            b \in {Empty, JsonObject, JsonArray, JsonString, JsonNull, JsonBigNumber, NotJson}}
       \cup {Met("response", HttpResponse(401, "", e, b)) :
            e \in {"identity", "gzip"},
            b \in {Empty, NotJson, ErrorObject(<<"m", "(c)">>)} \cup refusals}
       \cup {Met("response", HttpResponse(429, ra, "identity", b)) :
            ra \in {"", "1", "2", "90", "sup2"}, b \in {Empty, ErrorObject(<<"m", "(c)">>)}}
       \cup {Met("response", HttpResponse(503, "", e, b)) :
            e \in {"identity", "gzip"}, b \in {Empty, ErrorObject(<<"m", "(c)">>)}}
       \cup {Met("response", HttpResponse(st, "", "truncated", Empty)) :
            st \in {200, 401, 429, 503}}
       \cup {Met(k, HttpResponse(0, "", "identity", Empty)) : k \in {"URLError", "TimeoutError"}}
       \cup {Met("ConnectionResetError", HttpResponse(200, "", "identity", JsonObject))}

HttpInit ==
    /\ req \in [fn : {"json", "bytes"}, url : Urls, max_retries : -1..MaxRetries]
    /\ attempt = 0
    /\ requests = 0
    /\ served = <<>>
    /\ sleeps = 0
    /\ sleep_s = 0
    /\ last = NoOutcomeYet
    /\ ended = NotEnded
    /\ OrchAtRest(NoArgs)
    /\ ClsIdle
    /\ CacheIdle
    /\ ExtIdle

\* One pass of `for attempt in range(max_retries + 1)`
Pass(met, jitter) ==
    /\ ended = NotEnded
    /\ attempt <= req.max_retries
    /\ requests' = requests + 1
    /\ served' = Append(served, met.response.status)
    /\ LET r == _request(met) IN
       IF r.kind = "raise"
       THEN /\ ended' = Raise(r.error, NoText)
            /\ last' = met
            /\ UNCHANGED <<attempt, sleeps, sleep_s>>
       ELSE IF r.response.status \in Transient /\ attempt < req.max_retries
       THEN LET retry_after == _parse_retry_after_seconds(r.response.retry_after) IN
            IF retry_after.kind = "raise"
            THEN /\ ended' = Raise(retry_after.error, NoText)
                 /\ last' = met
                 /\ UNCHANGED <<attempt, sleeps, sleep_s>>
            ELSE /\ sleep_s' = SleepFor(attempt, jitter, retry_after.seconds)
                 /\ sleeps' = sleeps + 1
                 /\ attempt' = attempt + 1
                 /\ UNCHANGED <<last, ended>>
       ELSE /\ ended' = Conclude(req.fn, req.url, r.response, r.last_error)
            /\ last' = met
            /\ UNCHANGED <<attempt, sleeps, sleep_s>>
    /\ UNCHANGED <<req, orchVars, extVars, clsVars, cacheVars>>

\* The statement after the loop, reached when range(max_retries + 1) is empty
Exhausted ==
    /\ ended = NotEnded
    /\ attempt > req.max_retries
    /\ ended' = Raise("RemoteApiError",
                      ErrorText(req.url, "failed after retries", 0, StrOfError("None")))
    /\ UNCHANGED <<req, attempt, requests, served, sleeps, sleep_s, last, orchVars, extVars, clsVars,
                   cacheVars>>

HttpNext ==
    \/ \E met \in Meets(req.url), jitter \in Jitters : Pass(met, jitter)
    \/ Exhausted

SpecHttp == HttpInit /\ [][HttpNext]_vars

(***************************************************************************)
(* http_request_json and http_request_bytes side by side: both are called  *)
(* with the same URL and max_retries, and each request of the one meets    *)
(* what the request of the same number of the other meets.  A call is its  *)
(* loop variable, the requests it issued, its sleeps and how it ended.     *)
(***************************************************************************)
NewCall ==
    [attempt |-> 0, requests |-> 0, served |-> <<>>, sleeps |-> 0, sleep_s |-> 0,
     ended |-> NotEnded]

\* The loop body in which only http_request_json retries
PassOn_OnlyJsonRetries(c, fn, url, max_retries, met, jitter) ==
    LET r == _request(met)
        issued == [c EXCEPT !.requests = @ + 1, !.served = Append(@, met.response.status)]
    IN IF r.kind = "raise" THEN [issued EXCEPT !.ended = Raise(r.error, NoText)]
       ELSE IF r.response.status \in Transient /\ c.attempt < max_retries /\ fn = "json"
       THEN LET retry_after == _parse_retry_after_seconds(r.response.retry_after)
            IN IF retry_after.kind = "raise"
               THEN [issued EXCEPT !.ended = Raise(retry_after.error, NoText)]
               ELSE [issued EXCEPT !.sleep_s = SleepFor(c.attempt, jitter, retry_after.seconds),
                                   !.sleeps = @ + 1,
                                   !.attempt = @ + 1]
       ELSE [issued EXCEPT !.ended = Conclude(fn, url, r.response, r.last_error)]

\* One pass of `for attempt in range(max_retries + 1)` of the call c of
\* http_request_json (fn "json") or http_request_bytes (fn "bytes")
PassOn(c, fn, url, max_retries, met, jitter) ==
    LET r == _request(met)
        issued == [c EXCEPT !.requests = @ + 1, !.served = Append(@, met.response.status)]
    IN IF r.kind = "raise" THEN [issued EXCEPT !.ended = Raise(r.error, NoText)]
       ELSE IF r.response.status \in Transient /\ c.attempt < max_retries
       THEN LET retry_after == _parse_retry_after_seconds(r.response.retry_after)
            IN IF retry_after.kind = "raise"
               THEN [issued EXCEPT !.ended = Raise(retry_after.error, NoText)]
               ELSE [issued EXCEPT !.sleep_s = SleepFor(c.attempt, jitter, retry_after.seconds),
                                   !.sleeps = @ + 1,
                                   !.attempt = @ + 1]
       ELSE [issued EXCEPT !.ended = Conclude(fn, url, r.response, r.last_error)]

\* The statement after the loop
ExhaustedOn(c, url) ==
    [c EXCEPT !.ended = Raise("RemoteApiError",
                              ErrorText(url, "failed after retries", 0, StrOfError("None")))]

InLoop(c) == c.ended = NotEnded /\ c.attempt <= pair.max_retries
PastLoop(c) == c.ended = NotEnded /\ c.attempt > pair.max_retries

CallBoth(url, max_retries) ==
    /\ pair = NotCalled
    /\ pair' = [kind |-> "pair", url |-> url, max_retries |-> max_retries,
                 json |-> NewCall, bytes |-> NewCall]
    /\ UNCHANGED <<normVars, sumVars, rssVars, cliVars, retryVars, keyVars>>
    /\ UNCHANGED <<orchVars, clsVars, httpVars, cacheVars>>

\* The next request of each call that is in its loop
PassBoth(met, jitter) ==
    /\ pair # NotCalled
    /\ InLoop(pair.json) \/ InLoop(pair.bytes)
    /\ pair' = [pair EXCEPT
                   !.json = IF InLoop(@)
                            THEN PassOn(@, "json", pair.url, pair.max_retries, met, jitter)
                            ELSE @,
                   !.bytes = IF InLoop(@)
                             THEN PassOn(@, "bytes", pair.url, pair.max_retries, met, jitter)
                             ELSE @]
    /\ UNCHANGED <<normVars, sumVars, rssVars, cliVars, retryVars, keyVars>>
    /\ UNCHANGED <<orchVars, clsVars, httpVars, cacheVars>>

ExhaustedBoth ==
    /\ pair # NotCalled
    /\ ~InLoop(pair.json) /\ ~InLoop(pair.bytes)
    /\ PastLoop(pair.json) \/ PastLoop(pair.bytes)
    /\ pair' = [pair EXCEPT
                   !.json = IF PastLoop(@) THEN ExhaustedOn(@, pair.url) ELSE @,
                   !.bytes = IF PastLoop(@) THEN ExhaustedOn(@, pair.url) ELSE @]
    /\ UNCHANGED <<normVars, sumVars, rssVars, cliVars, retryVars, keyVars>>
    /\ UNCHANGED <<orchVars, clsVars, httpVars, cacheVars>>

PairInit == ExtIdle /\ OrchAtRest(NoArgs) /\ ClsIdle /\ HttpIdle /\ CacheIdle

PairNext ==
    \/ \E url \in Urls, max_retries \in -1..MaxRetries : CallBoth(url, max_retries)
    \/ pair # NotCalled /\ \E met \in Meets(pair.url), jitter \in Jitters : PassBoth(met, jitter)
    \/ ExhaustedBoth

SpecPair == PairInit /\ [][PairNext]_vars

(***************************************************************************)
(* JsonDiskCache.get and JsonDiskCache.set, one file-system call per       *)
(* step.  A step that touches the disk takes `ok`: with ok false the call  *)
(* raises OSError.  The rename of replace() and the read of read_text()    *)
(* are atomic; write_text() creates the temporary file and then fills it.  *)
(***************************************************************************)
\* A behaviour of one process makes at most MaxCalls calls of get and set,
\* a behaviour of concurrent processes at most MaxRaceCalls.
MaxCalls == 2
MaxRaceCalls == 3

\* The age test of get with `>=` for `>`
Expired_AtTTL(created_at, ttl_seconds, clock) ==
    ttl_seconds # NoTTL /\ Max(0, clock - created_at) >= ttl_seconds

\* `ttl_seconds is not None` and max(0.0, age) > ttl_seconds
Expired(created_at, ttl_seconds, clock) ==
    ttl_seconds # NoTTL /\ Max(0, clock - created_at) > ttl_seconds

\* What the next call keeps of a call: its arguments, the file it found
\* under its key, whether a disk operation failed in it and how it ended
Summary(r) ==
    [op |-> r.op, key |-> r.key, value |-> r.value, utc |-> r.utc,
     found |-> IF r.op = "none" THEN NoFile ELSE r.before[r.key],
     io_failed |-> r.io_failed, ended |-> r.result.kind]

\* The locals of a call that starts: key, value, ttl_seconds, and the
\* _utcnow() that set reads for created_at and get for the age
Begin(p, op, key, value, ttl_seconds) ==
    [op |-> op, pc |-> "idle", key |-> key, value |-> value, ttl |-> ttl_seconds,
     utc |-> utcnow, raw |-> NoFile, before |-> entries, io_failed |-> FALSE,
     result |-> NoResultYet, earlier |-> Summary(proc[p])]

Returns(r, value) ==
    [r EXCEPT !.pc = "idle", !.result = [kind |-> "returned", value |-> value, error |-> ""]]

Raises(r, error) ==
    [r EXCEPT !.pc = "idle", !.result = [kind |-> "raised", value |-> PyNone, error |-> error]]

\* set up to the open() of write_text: the temporary file exists and is empty
CallSet(p, key, value, ok) ==
    /\ proc[p].pc = "idle"
    /\ calls' = calls + 1
    /\ proc' = [proc EXCEPT ![p] =
                   [Begin(p, "set", key, value, NoTTL) EXCEPT
                        !.pc = IF ok THEN "write" ELSE "cleanup", !.io_failed = ~ok]]
    /\ tmp_files' = [tmp_files EXCEPT ![p] = IF ok THEN Partial ELSE NoFile]
    /\ UNCHANGED <<entries, utcnow, orchVars, extVars, clsVars, httpVars>>

\* set writing the text to the destination itself before the rename
SetWrite_InPlace(p, ok) ==
    /\ proc[p].pc = "write"
    /\ LET text == json_dumps(proc[p].value) IN
       IF ~Utf8Encodes(text)
       THEN /\ proc' = [proc EXCEPT ![p] = Raises(@, "UnicodeEncodeError")]
            /\ UNCHANGED <<tmp_files, entries>>
       ELSE IF ok
       THEN /\ proc' = [proc EXCEPT ![p].pc = "rename"]
            /\ tmp_files' = [tmp_files EXCEPT ![p] = Entry(proc[p].utc, text)]
            /\ entries' = [entries EXCEPT ![proc[p].key] = Entry(proc[p].utc, text)]
       ELSE /\ proc' = [proc EXCEPT ![p].pc = "cleanup", ![p].io_failed = TRUE]
            /\ UNCHANGED <<tmp_files, entries>>
    /\ UNCHANGED <<utcnow, calls, orchVars, extVars, clsVars, httpVars>>

\* write_text after the open(): the text is encoded and written
SetWrite(p, ok) ==
    /\ proc[p].pc = "write"
    /\ LET text == json_dumps(proc[p].value) IN
       IF ~Utf8Encodes(text)
       THEN /\ proc' = [proc EXCEPT ![p] = Raises(@, "UnicodeEncodeError")]
            /\ UNCHANGED tmp_files
       ELSE IF ok
       THEN /\ proc' = [proc EXCEPT ![p].pc = "rename"]
            /\ tmp_files' = [tmp_files EXCEPT ![p] = Entry(proc[p].utc, text)]
       ELSE /\ proc' = [proc EXCEPT ![p].pc = "cleanup", ![p].io_failed = TRUE]
            /\ UNCHANGED tmp_files
    /\ UNCHANGED <<entries, utcnow, calls, orchVars, extVars, clsVars, httpVars>>

\* tmp_path.replace(path) with source and destination exchanged
SetRename_Backwards(p, ok) ==
    /\ proc[p].pc = "rename"
    /\ IF ok
       THEN /\ entries' = [entries EXCEPT ![proc[p].key] = NoFile]
            /\ tmp_files' = [tmp_files EXCEPT ![p] = entries[proc[p].key]]
            /\ proc' = [proc EXCEPT ![p] = Returns(@, PyNone)]
       ELSE /\ proc' = [proc EXCEPT ![p].pc = "cleanup", ![p].io_failed = TRUE]
            /\ UNCHANGED <<entries, tmp_files>>
    /\ UNCHANGED <<utcnow, calls, orchVars, extVars, clsVars, httpVars>>

\* tmp_path.replace(path)
SetRename(p, ok) ==
    /\ proc[p].pc = "rename"
    /\ IF ok
       THEN /\ entries' = [entries EXCEPT ![proc[p].key] = tmp_files[p]]
            /\ tmp_files' = [tmp_files EXCEPT ![p] = NoFile]
            /\ proc' = [proc EXCEPT ![p] = Returns(@, PyNone)]
       ELSE /\ proc' = [proc EXCEPT ![p].pc = "cleanup", ![p].io_failed = TRUE]
            /\ UNCHANGED <<entries, tmp_files>>
    /\ UNCHANGED <<utcnow, calls, orchVars, extVars, clsVars, httpVars>>

\* the handler of set ending in `raise`
SetCleanup_Reraises(p, ok) ==
    /\ proc[p].pc = "cleanup"
    /\ tmp_files' = [tmp_files EXCEPT ![p] = IF ok THEN NoFile ELSE @]
    /\ proc' = [proc EXCEPT ![p] = Raises(@, "OSError")]
    /\ UNCHANGED <<entries, utcnow, calls, orchVars, extVars, clsVars, httpVars>>

\* except OSError: tmp_path.unlink(missing_ok=True), itself guarded
SetCleanup(p, ok) ==
    /\ proc[p].pc = "cleanup"
    /\ tmp_files' = [tmp_files EXCEPT ![p] = IF ok THEN NoFile ELSE @]
    /\ proc' = [proc EXCEPT ![p] = Returns(@, PyNone)]
    /\ UNCHANGED <<entries, utcnow, calls, orchVars, extVars, clsVars, httpVars>>

\* The process dies inside set; the next call under the same index is
\* that of a new process
Crash(p) ==
    /\ proc[p].pc \in {"write", "rename", "cleanup"}
    /\ proc' = [proc EXCEPT ![p].pc = "idle",
                            ![p].result = [kind |-> "crashed", value |-> PyNone, error |-> ""]]
    /\ UNCHANGED <<entries, tmp_files, utcnow, calls, orchVars, extVars, clsVars, httpVars>>

\* get up to its return or to the unlink of a file it rejects
CallGet(p, key, ttl_seconds, ok) ==
    /\ proc[p].pc = "idle"
    /\ calls' = calls + 1
    /\ LET f == entries[key]
           r == Begin(p, "get", key, PyNone, ttl_seconds)
       IN  proc' = [proc EXCEPT ![p] =
               IF ~ok THEN Returns([r EXCEPT !.raw = Unreadable, !.io_failed = TRUE], PyNone)
               ELSE IF f = NoFile THEN Returns(r, PyNone)
               ELSE IF f = BadBytes THEN Raises([r EXCEPT !.raw = f], "UnicodeDecodeError")
               ELSE IF f.kind # "entry" THEN [r EXCEPT !.raw = f, !.pc = "unlink"]
               ELSE IF Expired(f.created_at, ttl_seconds, r.utc)
                    THEN [r EXCEPT !.raw = f, !.pc = "unlink"]
               ELSE Returns([r EXCEPT !.raw = f], json_loads(f.value))]
    /\ UNCHANGED <<entries, tmp_files, utcnow, orchVars, extVars, clsVars, httpVars>>

\* path.unlink(missing_ok=True), guarded, then `return None`
GetUnlink(p, ok) ==
    /\ proc[p].pc = "unlink"
    /\ entries' = [entries EXCEPT ![proc[p].key] = IF ok THEN NoFile ELSE @]
    /\ proc' = [proc EXCEPT ![p] = Returns([@ EXCEPT !.io_failed = ~ok], PyNone)]
    /\ UNCHANGED <<tmp_files, utcnow, calls, orchVars, extVars, clsVars, httpVars>>

CacheTick ==
    /\ utcnow < MaxTime
    /\ utcnow' = utcnow + 1
    /\ UNCHANGED <<entries, tmp_files, proc, calls, orchVars, extVars, clsVars, httpVars>>

CacheValues == {PyDict("v1"), PyDict("v2"), PyTuple, PySurrogate, PyNone}

\* ttl_seconds: None, 0 and MaxTime seconds
CacheTTLs == {NoTTL, 0, MaxTime}

StoredV1 == json_dumps(PyDict("v1"))

\* The states a cache file is found in; the last entry carries a
\* created_at ahead of the clock
FileStates ==
    {NoFile, BadBytes, InvalidJson, NotAnObject, NoCreatedAt, BadCreatedAt,
     Entry(0, StoredV1), Entry(MaxTime, StoredV1)}

\* The calls are made on key "k1"; key "k2" holds an entry
CacheDirs ==
    {[k \in CacheKeys |-> IF k = "k1" THEN f ELSE Entry(0, StoredV1)] : f \in FileStates}

\* One process at a time
CacheInit ==
    /\ \E dir \in CacheDirs : CacheAtRest(dir)
    /\ OrchAtRest(NoArgs)
    /\ ClsIdle
    /\ HttpIdle
    /\ ExtIdle

CacheNext ==
    \/ \E value \in CacheValues, ok \in BOOLEAN :
          calls < MaxCalls /\ CallSet(1, "k1", value, ok)
    \/ \E ok \in BOOLEAN : SetWrite(1, ok)
    \/ \E ok \in BOOLEAN : SetRename(1, ok)
    \/ \E ok \in BOOLEAN : SetCleanup(1, ok)
    \/ Crash(1)
    \/ \E ttl_seconds \in CacheTTLs, ok \in BOOLEAN :
          calls < MaxCalls /\ CallGet(1, "k1", ttl_seconds, ok)
    \/ \E ok \in BOOLEAN : GetUnlink(1, ok)
    \/ CacheTick

SpecCache == CacheInit /\ [][CacheNext]_vars

StoredV0 == json_dumps(PyDict("v0"))

\* Processes on one key, on a disk that works.  The file is missing, holds
\* text that is not JSON, or holds an entry written before
RaceInit ==
    /\ \E f \in {NoFile, InvalidJson, Entry(0, StoredV0)} :
          CacheAtRest([k \in CacheKeys |-> IF k = "k1" THEN f ELSE Entry(0, StoredV1)])
    /\ OrchAtRest(NoArgs)
    /\ ClsIdle
    /\ HttpIdle
    /\ ExtIdle

RaceNext ==
    \/ \E p \in Procs, value \in {PyDict("v1"), PyDict("v2")} :
          calls < MaxRaceCalls /\ CallSet(p, "k1", value, TRUE)
    \/ \E p \in Procs : SetWrite(p, TRUE)
    \/ \E p \in Procs : SetRename(p, TRUE)
    \/ \E p \in Procs, ttl_seconds \in CacheTTLs :
          calls < MaxRaceCalls /\ CallGet(p, "k1", ttl_seconds, TRUE)
    \/ \E p \in Procs : GetUnlink(p, TRUE)
    \/ CacheTick

SpecCacheRace == RaceInit /\ [][RaceNext]_vars

(***************************************************************************)
(* Properties of analyze_with_cache                                        *)
(***************************************************************************)
Returned == pc = "idle" /\ outcome.kind = "returned"

\* The classification calls of the call, in order
Calls == SelectSeq(log, LAMBDA e : e.op = "classify")

\* The article was in a batch handed to the classifier
Sent(id) == \E i \in 1..Len(Calls) : \E j \in 1..Len(Calls[i].batch) : Calls[i].batch[j] = id

Served(id) == id \in DOMAIN cached_results

\* No entry the previous call read or wrote is older than the TTL
TTLNotElapsed ==
    \/ args.cache_ttl_seconds = NoTTL
    \/ now - prev.oldest <= args.cache_ttl_seconds

\* A call that returned, after a call with the same articles, API key and
\* batch size that returned too, on the same working cache within the TTL
Repeated ==
    /\ Returned
    /\ prev.returned
    /\ prev.same_args
    /\ args.cache = "ok"
    /\ TTLNotElapsed

AllServedWithoutCalls ==
    /\ Calls = <<>>
    /\ \A i \in 1..Len(args.articles) : Served(args.articles[i])

\* C1, as stated: the second of two identical include_reasons=True calls on
\* one cache within the TTL makes no classification call and serves every
\* article from the cache.
C1_AsStated ==
    (Repeated /\ prev.include_reasons /\ args.include_reasons) => AllServedWithoutCalls

\* C1: the second of two identical include_reasons=True calls on one cache
\* within the TTL makes no classification call and serves every article
\* from the cache, provided every result the first call returned carried a
\* non-empty reason.
C1_RepeatServedFromCache ==
    (Repeated /\ prev.include_reasons /\ args.include_reasons /\ prev.all_reasoned)
        => AllServedWithoutCalls

C1_Witness ==
    /\ Repeated /\ prev.include_reasons /\ args.include_reasons /\ prev.all_reasoned
    /\ args.articles = <<"a1", "a2">>
    /\ AllServedWithoutCalls
    /\ \A a \in {"a1", "a2"} : hits[a].used = 1 /\ HasReason(cached_results[a].reason)
    /\ cached_results["a1"].label = "positive"
    /\ outcome.results = <<cached_results["a1"], cached_results["a2"]>>

\* C2: in a call with include_reasons=True no article is served from a
\* cache entry without a non-empty reason, and every article that is not
\* served from the cache is sent to the classifier.
C2_ReasonlessEntriesReclassified ==
    (Returned /\ args.include_reasons /\ args.cache = "ok") =>
        \A i \in 1..Len(args.articles) :
            LET a == args.articles[i]
            IN IF Served(a) THEN HasReason(hits[a].value.reason) ELSE Sent(a)

\* C3: a call with include_reasons=False for articles an earlier
\* include_reasons=True call cached makes no classification call and
\* returns every ArticleSentiment without a reason.
C3_ReasonsStripped ==
    (Repeated /\ prev.include_reasons /\ prev.complete /\ ~args.include_reasons) =>
        /\ Calls = <<>>
        /\ \A i \in 1..Len(outcome.results) : outcome.results[i].reason = Null

\* C4: the results of a call that returns are as many as the articles, and
\* the i-th result is that of the i-th article.
C4_ResultsAlignWithArticles ==
    Returned =>
        /\ Len(outcome.results) = Len(args.articles)
        /\ \A i \in 1..Len(args.articles) : outcome.results[i].article_id = args.articles[i]

\* A cached first article, a classified second one
C4_Witness ==
    /\ Returned
    /\ args.articles = <<"a1", "a2">>
    /\ Served("a1") /\ ~Served("a2") /\ Sent("a2")
    /\ outcome.results[1] = cached_results["a1"]
    /\ outcome.results[2] = FreshById(fresh_results, "a2")

(***************************************************************************)
(* Properties of analyze_articles_with_openai                              *)
(***************************************************************************)
\* The entry passes the validation the specification describes: a string
\* article_id, a label of the three, a finite number as score and confidence
Survives(item) ==
    /\ IsDict(item)
    /\ IsStr(item.article_id)
    /\ IsStr(item.label) /\ item.label.s \in Labels
    /\ item.score.t \in {"num", "bool", "bigint"}
    /\ item.confidence.t \in {"num", "bool", "bigint"}

ValidatedIds ==
    {call.reply.items[i].article_id.s :
        i \in {j \in 1..Len(call.reply.items) : Survives(call.reply.items[j])}}

\* C5: for a model output that parses to an object with a results array the
\* call returns one ArticleSentiment per input article, in input order, and
\* an article absent from the validated output gets a neutral result of
\* score 0 and confidence 0, with a non-empty reason exactly when
\* include_reasons is true.
C5_OneResultPerArticle ==
    (returned # NotCalled /\ call.api_key # "" /\ call.reply.kind = "results") =>
        /\ returned.kind = "ok"
        /\ Len(returned.results) = Len(call.articles)
        /\ \A i \in 1..Len(call.articles) :
              LET r == returned.results[i] IN
              /\ r.article_id = call.articles[i]
              /\ call.articles[i] \notin ValidatedIds =>
                    /\ r.label = "neutral" /\ r.score = 0 /\ r.confidence = 0
                    /\ HasReason(r.reason) <=> call.include_reasons

\* C6: every ArticleSentiment the call returns has its score in [-1, 1],
\* its confidence in [0, 1], and a score of the sign of its label: 0 for
\* neutral, >= 0 for positive, <= 0 for negative.
C6_ReturnedWithinRanges ==
    returned.kind = "ok" =>
        \A i \in 1..Len(returned.results) :
            LET r == returned.results[i] IN
            /\ r.score \in -100..100
            /\ r.confidence \in 0..100
            /\ r.label \in Labels
            /\ r.label = "neutral" => r.score = 0
            /\ r.label = "positive" => r.score >= 0
            /\ r.label = "negative" => r.score <= 0

\* A score of 2.5 under a negative label and one of -0.7 under a positive
\* label come back as -1 and 0.7, a confidence of 1.5 as 1
C6_Witness ==
    /\ returned.kind = "ok"
    /\ call.articles = <<"a1", "a2">>
    /\ call.reply.kind = "results"
    /\ call.reply.items =
          << Dict(Str("a1"), Str("negative"), Num(250), Num(150), Null),
             Dict(Str("a2"), Str("positive"), Num(-70), Num(90), Str("long")) >>
    /\ returned.results[1].score = -100 /\ returned.results[1].confidence = 100
    /\ returned.results[2].score = 70

(***************************************************************************)
(* Properties of the transport                                             *)
(***************************************************************************)
Ended == ended # NotEnded

AllTransient == \A i \in 1..Len(served) : served[i] \in Transient

\* C7: with max_retries >= 0 http_request_json issues at most
\* max_retries + 1 requests, and when every response has a transient status
\* it issues exactly max_retries + 1 requests and raises RemoteApiError,
\* without a sleep when max_retries is 0.
C7_RequestsBounded ==
    (req.fn = "json" /\ req.max_retries >= 0) =>
        /\ requests <= req.max_retries + 1
        /\ (Ended /\ AllTransient) =>
              /\ requests = req.max_retries + 1
              /\ ended.kind = "raised" /\ ended.error = "RemoteApiError"
              /\ req.max_retries = 0 => sleeps = 0

\* C8: when k <= max_retries responses of transient status are followed by
\* a 2xx response whose body is a JSON object, http_request_json goes on
\* to the next request after each of the k, and returns the object after
\* request k + 1.
C8_ReturnsAfterTransients ==
    (req.fn = "json" /\ req.max_retries >= 0 /\ Ended /\ last.kind = "response") =>
        /\ (served[Len(served)] \in Transient) => Len(served) > req.max_retries
        /\ ( /\ last.response.status = 200
             /\ last.response.encoding # "truncated"
             /\ last.response.body.shape = "object" ) =>
                /\ ended.kind = "returned" /\ ended.value = last.response.body
                /\ requests = Len(served)

\* C9: a call of http_request_json or http_request_bytes that fails, fails
\* with RemoteApiError and with no other kind of error.
C9_FailsWithRemoteApiErrorOnly ==
    (Ended /\ ended.kind = "raised") => ended.error = "RemoteApiError"

\* The text of the error holds the word: as a value in its URL, or in its
\* detail
Contains(text, word) ==
    \/ \E i \in 1..Len(text.url.query) : text.url.query[i].value = word
    \/ \E i \in 1..Len(text.detail) : text.detail[i] = word

\* The URL with another secret in the place of each secret value
TwinUrl(url) ==
    [url EXCEPT !.query = [i \in 1..Len(url.query) |->
        IF IsSecretKey(url.query[i].key) THEN Param(url.query[i].key, "s2")
        ELSE url.query[i]]]

\* How the call on the twin URL ends on the same responses
TwinEnded ==
    IF last = NoOutcomeYet
    THEN Raise("RemoteApiError",
               ErrorText(TwinUrl(req.url), "failed after retries", 0, StrOfError("None")))
    ELSE Conclude(req.fn, TwinUrl(req.url), _request(last).response, _request(last).last_error)

\* C10: for a URL with a secret query parameter, the text of a
\* RemoteApiError of http_request_json does not contain the parameter's
\* value, contains REDACTED, and is the text the call raises when only the
\* secret value differs.
C10_SecretNotInErrorText ==
    ( /\ req.fn = "json"
      /\ Ended /\ ended.kind = "raised" /\ ended.error = "RemoteApiError"
      /\ SecretValues(req.url) # {} ) =>
        /\ \A v \in SecretValues(req.url) : ~Contains(ended.text, v)
        /\ Contains(ended.text, "REDACTED")
        /\ ended.text = TwinEnded.text

\* C11: when the call ends on a 2xx response whose body json.loads parses
\* to an array, a string or null, http_request_json raises RemoteApiError
\* and returns nothing; what it returns is always a JSON object.
C11_NonObjectJsonRejected ==
    (req.fn = "json" /\ Ended) =>
        /\ ( /\ last.kind = "response"
             /\ last.response.status = 200
             /\ last.response.encoding # "truncated"
             /\ last.response.body.shape \in {"array", "string", "null"} ) =>
                /\ ended.kind = "raised" /\ ended.error = "RemoteApiError"
                /\ ended.text.what = "returned unexpected JSON type"
        /\ ended.kind = "returned" => ended.value.shape = "object"

\* After a retry, a 200 response with a gzip-encoded JSON array ends the
\* call with RemoteApiError
C11_Witness ==
    /\ req.fn = "json" /\ Ended
    /\ requests = 2
    /\ last = Met("response", HttpResponse(200, "", "gzip", JsonArray))
    /\ ended.kind = "raised" /\ ended.error = "RemoteApiError"
    /\ ended.text.detail = <<"list">>

(***************************************************************************)
(* Properties of JsonDiskCache                                             *)
(***************************************************************************)
P1 == proc[1]

GetEnded == P1.op = "get" /\ P1.pc = "idle"

\* None, which get returns for "absent"
Absent == [kind |-> "returned", value |-> PyNone, error |-> ""]

\* The get that ended was the call after a set on the same key; neither
\* met a disk failure and the set was not killed
SetThenGet ==
    /\ GetEnded
    /\ P1.earlier.op = "set" /\ P1.earlier.key = P1.key
    /\ P1.earlier.ended # "crashed"
    /\ ~P1.earlier.io_failed /\ ~P1.io_failed

\* T is larger than the time between the two calls
TLargerThanElapsed == P1.ttl = NoTTL \/ P1.ttl > P1.utc - P1.earlier.utc

\* While a set is in progress and after it, the files of the other keys
\* are those found when it started
OtherKeysUntouched ==
    P1.op = "set" => \A k \in CacheKeys \ {P1.key} : entries[k] = P1.before[k]

\* json.loads(json.dumps(v)) == v, and the text encodes as UTF-8
ExactInJson(v) == json_loads(json_dumps(v)) = v /\ Utf8Encodes(json_dumps(v))

\* C12 as the spec states it: set(k, v) followed by get(k, T) with T larger
\* than the elapsed time returns v, for every value json.dumps accepts.
C12_AsStated ==
    /\ (SetThenGet /\ TLargerThanElapsed) =>
           P1.result = [kind |-> "returned", value |-> P1.earlier.value, error |-> ""]
    /\ OtherKeysUntouched

\* C12: set(k, v) followed by get(k, T) with T larger than the elapsed time
\* returns v when v is a value that json.loads(json.dumps(v)) gives back and
\* whose text encodes as UTF-8; the set leaves the files of other keys as
\* they were.
C12_SetThenGetReturnsValue ==
    /\ (SetThenGet /\ TLargerThanElapsed /\ ExactInJson(P1.earlier.value)) =>
           P1.result = [kind |-> "returned", value |-> P1.earlier.value, error |-> ""]
    /\ OtherKeysUntouched

C12_Witness ==
    /\ SetThenGet
    /\ P1.earlier.value = PyDict("v2")
    /\ P1.earlier.found = Entry(0, StoredV1)
    /\ P1.earlier.utc = 0 /\ P1.utc = 0 /\ P1.ttl = MaxTime
    /\ P1.result.value = PyDict("v2")
    /\ entries["k2"] = Entry(0, StoredV1)

\* The get that ended read a well-formed entry
ReadEntry == GetEnded /\ P1.raw.kind = "entry"

\* The age of the entry it read, floored at 0, exceeds ttl_seconds
FoundExpired == P1.ttl # NoTTL /\ Max(0, P1.utc - P1.raw.created_at) > P1.ttl

\* C13 as the spec states it: on a well-formed entry get returns absent
\* exactly when the age exceeds T, and after a get that found the entry
\* expired the file no longer exists.
C13_AsStated ==
    ReadEntry =>
        /\ P1.result = Absent <=> FoundExpired
        /\ FoundExpired => entries[P1.key] = NoFile

\* C13: on a well-formed entry whose value is not null, get with TTL T
\* returns absent exactly when the age (floored at 0) exceeds T: an entry of
\* age T is returned and ttl_seconds=None never expires.  After a get that
\* found the entry expired the file no longer exists, unless the unlink
\* failed.
C13_ExpiresPastTTL ==
    ReadEntry =>
        /\ P1.raw.value.json # "null" => (P1.result = Absent <=> FoundExpired)
        /\ ~FoundExpired =>
               P1.result = [kind |-> "returned", value |-> json_loads(P1.raw.value), error |-> ""]
        /\ (FoundExpired /\ ~P1.io_failed) => entries[P1.key] = NoFile
        /\ P1.ttl = NoTTL => ~FoundExpired

C13_Witness ==
    /\ ReadEntry
    /\ P1.raw = Entry(0, StoredV1)
    /\ P1.ttl = 0 /\ P1.utc = 1
    /\ ~P1.io_failed
    /\ P1.result = Absent
    /\ entries["k1"] = NoFile

\* C14: get never raises: whatever the file holds (missing, unreadable,
\* bytes that are not valid text, invalid JSON, JSON that is not an object,
\* created_at missing or unparsable, an entry older than the TTL), and also
\* when the unlink of the stale file fails, it returns absent.
C14_GetNeverRaises ==
    GetEnded =>
        /\ P1.result.kind = "returned"
        /\ (P1.raw.kind # "entry" \/ FoundExpired) => P1.result = Absent

\* The get that ended was the call after a set on the same key that was
\* killed before its rename, a valid entry being stored when that set began
GetAfterKilledSet ==
    /\ GetEnded
    /\ P1.earlier.op = "set" /\ P1.earlier.key = P1.key
    /\ P1.earlier.ended = "crashed"
    /\ P1.earlier.found.kind = "entry"

\* C15: from the start of set(k, v2) on, killed or not, the file of k is the
\* complete entry found when the set started or the complete new entry; and
\* after a set killed before its rename, a get that reads the file within
\* the TTL of the old entry returns the old value.
C15_SetIsAtomic ==
    /\ P1.op = "set" =>
           entries[P1.key] \in {P1.before[P1.key], Entry(P1.utc, json_dumps(P1.value))}
    /\ ( /\ GetAfterKilledSet
         /\ ~P1.io_failed
         /\ (P1.ttl = NoTTL \/ Max(0, P1.utc - P1.earlier.found.created_at) <= P1.ttl) ) =>
           P1.result = [kind |-> "returned", value |-> json_loads(P1.earlier.found.value),
                        error |-> ""]

C15_Witness ==
    /\ GetAfterKilledSet
    /\ P1.earlier.value = PyDict("v2")
    /\ P1.earlier.found = Entry(0, StoredV1)
    /\ tmp_files[1] = Entry(0, json_dumps(PyDict("v2")))
    /\ P1.ttl = MaxTime /\ P1.utc = MaxTime
    /\ P1.result.value = PyDict("v1")

\* C16: a set that meets an I/O failure of its write or its rename does not
\* raise, and from the failure on every file of the directory, that of its
\* own key included, is the one found when the set started.
C16_FailedSetIsSilent ==
    (P1.op = "set" /\ P1.io_failed) =>
        /\ P1.result.kind # "raised"
        /\ entries = P1.before

C16_Witness ==
    /\ P1.op = "set" /\ P1.pc = "idle" /\ P1.io_failed
    /\ P1.value = PyDict("v2")
    /\ P1.before["k1"] = Entry(0, StoredV1)
    /\ tmp_files[1] = Partial
    /\ P1.result = Absent
    /\ entries["k1"] = Entry(0, StoredV1)

(***************************************************************************)
(* Properties of JsonDiskCache under concurrent calls                      *)
(***************************************************************************)
AllQuiet == \A p \in Procs : proc[p].pc = "idle"

Setters == {p \in Procs : proc[p].op = "set"}
Getters == {p \in Procs : proc[p].op = "get"}

\* The entry that the set of process p writes
EntryOf(p) == Entry(proc[p].utc, json_dumps(proc[p].value))

\* Each process made one call at most and the calls are over; the sets
\* renamed their files, and each get read the file before any set renamed
\* its own over it
RacedAndOver ==
    /\ AllQuiet
    /\ \A p \in Procs : proc[p].earlier.op = "none"
    /\ Setters # {}
    /\ \A g \in Getters : proc[g].raw \in {NoFile, InvalidJson, Entry(0, StoredV0)}

CallOver == pc = "idle" /\ runs > 0

\* SentimentSummary.articles_analyzed
articles_analyzed == Len(outcome.results)

\* No get of the call gives a value and no set stores one: every disk
\* operation fails with OSError, or every file holds undecodable bytes
CacheOfNoUse ==
    \/ args.cache = "failing"
    \/ args.cache = "ok" /\ \A k \in AllKeys : files[k] = BadBytes

\* C18: with a cache no get of which gives a value and no set of which
\* stores one, analyze_with_cache raises nothing because of the cache and
\* returns what it returns with cache=None: every article is classified and
\* the results are the merge of the fresh results alone.
C18_ResultIndependentOfCache ==
    (CallOver /\ CacheOfNoUse) =>
        /\ outcome.error # "UnicodeDecodeError"
        /\ outcome.kind = "returned" =>
               /\ to_analyze = args.articles
               /\ cached_results = EmptyMap
               /\ outcome.results = Merged(args.articles, EmptyMap, fresh_results)

\* C19: a call with an empty article list makes no classification call and
\* no cache get or set, whatever the cache, the batch size and
\* include_reasons, and returns a summary with articles_analyzed = 0 and an
\* empty result list.
C19_EmptyListDoesNothing ==
    (CallOver /\ args.articles = <<>>) =>
        /\ log = <<>>
        /\ outcome.kind = "returned"
        /\ outcome.results = <<>>
        /\ articles_analyzed = 0

C19_Witness ==
    /\ CallOver
    /\ runs = 2
    /\ args.articles = <<>> /\ args.batch_size = 0 /\ args.include_reasons
    /\ args.cache = "ok" /\ \A k \in AllKeys : files[k] = BadBytes
    /\ outcome.kind = "returned"
    /\ prev.returned = FALSE

(***************************************************************************)
(* The errors of analyze_articles_with_openai                              *)
(***************************************************************************)
\* C20: analyze_articles_with_openai fails only with ConfigurationError
\* (no API key, before any request), with ParseError (no output text, or
\* output that is not the expected JSON: not JSON, JSON that is not an
\* object, an object without a results array) or with the RemoteApiError of
\* the transport; an invalid entry of the results array is dropped and
\* never fails the call.
C20_FailsOnlyWithNamedErrors ==
    returned # NotCalled =>
        /\ returned.kind = "raise" =>
               returned.error \in {"ConfigurationError", "ParseError", "RemoteApiError"}
        /\ call.api_key = "" =>
               returned = [kind |-> "raise", error |-> "ConfigurationError"]
        /\ (call.api_key # "" /\ call.reply.kind \in {"no_text", "not_json", "non_object",
                                                       "no_results"}) =>
               returned = [kind |-> "raise", error |-> "ParseError"]
        /\ (call.api_key # "" /\ call.reply.kind = "results") => returned.kind = "ok"

(***************************************************************************)
(* analyze_with_cache without an API key                                   *)
(***************************************************************************)
EveryArticleServed == \A i \in 1..Len(args.articles) : Served(args.articles[i])

\* C21: with an empty API key a call whose articles all have a satisfying
\* cache entry returns without a classification call, and a call with an
\* article that has none fails with ConfigurationError; with a non-empty
\* key no call fails with ConfigurationError.
C21_EmptyKeyNeedsFullCache ==
    CallOver =>
        /\ (args.api_key = "" /\ EveryArticleServed) =>
               outcome.kind = "returned" /\ Calls = <<>>
        /\ (args.api_key = "" /\ ~EveryArticleServed) =>
               outcome.kind = "raised" /\ outcome.error = "ConfigurationError"
        /\ args.api_key # "" => outcome.error # "ConfigurationError"

(***************************************************************************)
(* The cache writes and the batches of analyze_with_cache                  *)
(***************************************************************************)
\* primary_key of the article in the call in progress
PrimaryKey(id) ==
    cache_key(OpenAIConfig(args.api_key), Ticker, PromptVersion(args.include_reasons), id)

\* C29: after a call with a working cache has returned, the primary key of
\* every article that was sent to the classifier holds the to_dict() of the
\* result the call returned for that article.
C29_FreshResultsStored ==
    (Returned /\ runs > 0 /\ args.cache = "ok") =>
        \A i \in 1..Len(args.articles) :
            Sent(args.articles[i]) =>
                /\ files[PrimaryKey(args.articles[i])].kind = "entry"
                /\ files[PrimaryKey(args.articles[i])].value = to_dict(outcome.results[i])

\* a1 classified, a2 left out of the reply and backfilled, both stored
C29_Witness ==
    /\ Returned
    /\ args.cache = "ok"
    /\ args.articles = <<"a1", "a2">>
    /\ Sent("a1") /\ Sent("a2")
    /\ outcome.results[1].label = "positive"
    /\ outcome.results[2] = Neutral("a2", outcome.results[2].reason)
    /\ files[PrimaryKey("a2")] = Entry(now, to_dict(outcome.results[2]))

\* The batches of the classification calls so far, one after the other
RECURSIVE Flatten(_)
Flatten(events) ==
    IF events = <<>> THEN <<>> ELSE Head(events).batch \o Flatten(Tail(events))

\* The articles of the call without a cache hit, in input order
Unserved == SelectSeq(args.articles, LAMBDA a : ~Served(a))

IsPrefix(s, t) == Len(s) <= Len(t) /\ s = SubSeq(t, 1, Len(s))

\* C30: with batch_size >= 1 every classification call carries between 1
\* and batch_size articles, the calls taken one after the other carry the
\* articles without a cache hit in input order, each once, and when the
\* call returns every such article has been carried.
C30_BatchesPartitionMisses ==
    (runs > 0 /\ args.batch_size >= 1) =>
        /\ \A i \in 1..Len(Calls) :
              Len(Calls[i].batch) >= 1 /\ Len(Calls[i].batch) <= args.batch_size
        /\ pc = "lookup" => Calls = <<>>
        /\ pc # "lookup" => IsPrefix(Flatten(Calls), Unserved)
        /\ Returned => Flatten(Calls) = Unserved

\* a1 served from the cache, a2 alone sent to the classifier
C30_Witness ==
    /\ Returned
    /\ args.batch_size = 1
    /\ args.articles = <<"a1", "a2">>
    /\ Served("a1")
    /\ Calls = <<Classify(<<"a2">>)>>

(***************************************************************************)
(* The candidate keys of an article                                        *)
(***************************************************************************)
\* The four keys of an article: primary, legacy of the current version,
\* the other version's, the other version's legacy
ProbeOrder(id) ==
    LET o == OpenAIConfig(args.api_key)
        pv == PromptVersion(args.include_reasons)
        ov == OtherVersion(args.include_reasons)
    IN << cache_key(o, Ticker, pv, id), legacy_key(o, Ticker, pv, id),
          cache_key(o, Ticker, ov, id), legacy_key(o, Ticker, ov, id) >>

\* The file of the key holds an entry within the TTL that parse_cached
\* accepts for the request
Satisfies(dir, key, id) ==
    parse_cached(id, CacheGet(dir, key, args.cache_ttl_seconds, now, TRUE).value,
                 args.include_reasons) # NoResult

\* The keys read in the step, in order
NewGets ==
    LET g == SelectSeq(SubSeq(log', Len(log) + 1, Len(log')), LAMBDA e : e.op = "get")
    IN [i \in 1..Len(g) |-> g[i].key]

\* C27: the pass of an article reads the keys in the order primary, legacy,
\* other version, other version's legacy; every key read before the last
\* one held no satisfying entry; the article is served exactly when the
\* last key read holds one, with the result parsed from it; an article
\* that is not served had all four keys read.
C27_ProbesInOrder ==
    [][(pc = "lookup" /\ args.cache = "ok") =>
          LET a == args.articles[idx]
              order == ProbeOrder(a)
              n == Len(NewGets)
          IN /\ n >= 1
             /\ IsPrefix(NewGets, order)
             /\ \A j \in 1..(n - 1) : ~Satisfies(files, order[j], a)
             /\ a \in DOMAIN cached_results' <=> Satisfies(files, order[n], a)
             /\ a \in DOMAIN cached_results' =>
                   cached_results'[a] =
                       parse_cached(a, files[order[n]].value, args.include_reasons)
             /\ a \notin DOMAIN cached_results' => n = Len(order)]_vars

\* a1 served from the fourth key after entries that failed validation
\* under the second and the third
C27_Witness ==
    /\ "a1" \in DOMAIN hits
    /\ hits["a1"].used = 4
    /\ files[ProbeOrder("a1")[2]] = Entry(0, SeedBare)
    /\ files[ProbeOrder("a1")[3]] = Entry(0, SeedForeign)
    /\ Len(SelectSeq(log, LAMBDA e : e.op = "get" /\ e.key \in KeysOf("a1"))) = 4

\* The cache writes of the call for the article
SetsFor(id) == SelectSeq(log, LAMBDA e : e.op = "set" /\ e.key \in KeysOf(id))

\* The write of the primary key comes before every classification call
WrittenBeforeClassifying(id) ==
    \E i \in 1..Len(log) :
        /\ log[i] = Set(PrimaryKey(id))
        /\ \A j \in 1..i : log[j].op # "classify"

\* A call with the same arguments, started now, is served from the primary key
NextCallHitsPrimary(id) ==
    LET p == Probe(files, Candidates(OpenAIConfig(args.api_key), Ticker,
                                     args.include_reasons, id),
                   1, id, args.cache_ttl_seconds, now, TRUE)
    IN p.used = 1 /\ p.result = cached_results[id]

\* Nothing the call wrote has outlived the TTL
WrittenWithinTTL ==
    \/ args.cache_ttl_seconds = NoTTL
    \/ now - oldest <= args.cache_ttl_seconds

WarmedForward(id, within) ==
    /\ SetsFor(id) = <<Set(PrimaryKey(id))>>
    /\ WrittenBeforeClassifying(id)
    /\ files[PrimaryKey(id)].kind = "entry"
    /\ files[PrimaryKey(id)].value = to_dict(cached_results[id])
    /\ (Returned /\ within) => NextCallHitsPrimary(id)

\* C28 as stated: the next identical call hits the primary key whenever
\* it is made
C28_AsStated ==
    \A id \in DOMAIN hits :
        /\ hits[id].used > 1 => WarmedForward(id, TRUE)
        /\ hits[id].used = 1 => SetsFor(id) = <<>>

\* C28: an article served from a key other than the primary one has its
\* result written under the primary key, once, before any classification
\* call, and a call with the same arguments made before the TTL elapses is
\* served from the primary key; an article served from the primary key
\* has no cache write.
C28_WarmsForward ==
    \A id \in DOMAIN hits :
        /\ hits[id].used > 1 => WarmedForward(id, WrittenWithinTTL)
        /\ hits[id].used = 1 => SetsFor(id) = <<>>

\* a2 classified and a1 served from the legacy key, time having passed
\* since within the TTL
C28_Witness ==
    /\ Returned
    /\ args.articles = <<"a2", "a1">>
    /\ Sent("a2")
    /\ "a1" \in DOMAIN hits
    /\ hits["a1"].used = 2
    /\ args.cache_ttl_seconds = MaxTime
    /\ now > oldest
    /\ NextCallHitsPrimary("a1")

(***************************************************************************)
(* The cached and the fresh result of one raw entry                        *)
(***************************************************************************)
SameJudgment(r, q) ==
    r.label = q.label /\ r.score = q.score /\ r.confidence = q.confidence

\* C26: whenever the lookup of analyze_with_cache rebuilds a result from an
\* entry, analyze_articles_with_openai given the same entry returns a
\* result with the same label, score and confidence.
C26_SameNormalization ==
    (from_cache # NotCalled /\ from_model # NotCalled /\ from_cache.kind = "hit") =>
        /\ from_model.kind = "ok"
        /\ SameJudgment(from_model.results[1], from_cache.result)

(***************************************************************************)
(* Properties of summarize_sentiment                                       *)
(***************************************************************************)
Summarized == summary # NotCalled

\* low <= x <= high for a finite x
Within(x, low, high) ==
    /\ x.f = "fin"
    /\ low * x.den <= x.num
    /\ x.num <= high * x.den

\* C22: the summary's score is a number in [-1, 1], its confidence a
\* number in [0, 1], the label and the signal are of their three values,
\* and articles_analyzed is the length of the result list.
C22_SummaryWithinRanges ==
    Summarized =>
        /\ Within(summary.score, -1, 1)
        /\ Within(summary.confidence, 0, 1)
        /\ summary.label \in {"positive", "negative", "neutral"}
        /\ summary.signal \in {"buy", "sell", "hold"}
        /\ summary.articles_analyzed = Len(scored)

\* Two results, one with a score beyond 1 and one with a NaN confidence
\* and an article an hour old
C22_Witness ==
    /\ Summarized
    /\ Len(scored) = 2
    /\ scored[1].score = Fin(3, 1)
    /\ scored[2].confidence = NaN
    /\ scored[2].published_at = Aged(3600)
    /\ half_life_hours = Fin(1, 1)
    /\ summary.score = Fin(1, 1)

\* score > 0.15, score < -0.15 and confidence < 0.55 for the finite values
\* of a summary, in integers
ScoreAbove == summary.score.num * 100 > 15 * summary.score.den
ScoreBelow == summary.score.num * 100 < -15 * summary.score.den
ConfidenceLow == summary.confidence.num * 100 < 55 * summary.confidence.den

\* C23: the label is positive exactly when the score is above 0.15 and
\* negative exactly when it is below -0.15; the signal is hold when the
\* confidence is below 0.55, and otherwise buy, sell or hold as the label
\* is positive, negative or neutral.
C23_LabelAndSignalFollowThresholds ==
    Summarized =>
        /\ summary.label = "positive" <=> ScoreAbove
        /\ summary.label = "negative" <=> ScoreBelow
        /\ summary.label = "neutral" <=> (~ScoreAbove /\ ~ScoreBelow)
        /\ ConfidenceLow => summary.signal = "hold"
        /\ ~ConfidenceLow =>
              /\ summary.signal = "buy" <=> summary.label = "positive"
              /\ summary.signal = "sell" <=> summary.label = "negative"
              /\ summary.signal = "hold" <=> summary.label = "neutral"

\* A score of exactly 0.15 at a confidence of exactly 0.55: neutral, hold
C23_Witness ==
    /\ Summarized
    /\ scored = <<[score |-> Fin(3, 20), confidence |-> Fin(11, 20),
                   published_at |-> NoneTime]>>
    /\ summary.label = "neutral"
    /\ summary.signal = "hold"
    /\ ~ConfidenceLow

(***************************************************************************)
(* Properties of fetch_google_news_rss                                     *)
(***************************************************************************)
\* The cutoff as an instant: a naive from_datetime is taken as UTC
CutoffInstant == from_datetime.wall - from_datetime.offset

\* The item has a publication time, and it is not before the cutoff
OnOrAfterCutoff(item) ==
    /\ item.pubDate.kind = "datetime"
    /\ item.pubDate.wall - item.pubDate.offset >= CutoffInstant

HasText(item) == item.title # "" \/ item.description \notin {"", "<b>"}

\* What the articles returned are to the feed and the cutoff: none is
\* published before the cutoff, and the items that have a title or a
\* description and a publication time at or after the cutoff are among
\* them, all of them, in the order of the feed
KeepsLaterItems(articles) ==
    /\ \A i \in 1..Len(articles) :
          articles[i].published_at # NoCutoff =>
              Instant(articles[i].published_at) >= CutoffInstant
    /\ LET due == SelectSeq(feed.items, LAMBDA it : HasText(it) /\ OnOrAfterCutoff(it))
           got == SelectSeq(articles, LAMBDA a : \E i \in 1..Len(due) : due[i].link = a.url)
       IN [i \in 1..Len(got) |-> got[i].url] = [i \in 1..Len(due) |-> due[i].link]

\* C24: a call with a cutoff, on a feed that is an RSS document, returns
\* no article published before the cutoff, and returns the items that have
\* a title or a description and a publication time at or after the cutoff,
\* all of them, in the order of the feed.
C24_CutoffKeepsLaterItems ==
    (fetched # NotCalled /\ feed.kind = "rss" /\ from_datetime # NoCutoff) =>
        /\ fetched.kind = "ok"
        /\ KeepsLaterItems(fetched.articles)

\* The calls that return do so: an item an hour before the cutoff by its
\* instant, though later by its wall clock, is dropped, and the item
\* exactly at the cutoff is returned
RssReturnsKeepLaterItems ==
    (fetched # NotCalled /\ fetched.kind = "ok" /\ from_datetime # NoCutoff) =>
        KeepsLaterItems(fetched.articles)

\* The call raises OverflowError on a feed with an item at the cutoff
RssRaisesOnHugeDay ==
    /\ fetched # NotCalled
    /\ fetched.kind = "raise" /\ fetched.error = "OverflowError"
    /\ from_datetime = Naive(10)
    /\ \E k \in 1..Len(feed.items) : HasText(feed.items[k]) /\ feed.items[k].pubDate = Aware(10, 0)

(***************************************************************************)
(* Properties of the analyze command                                       *)
(***************************************************************************)
\* The positions in fetches of the fetches from a source
FetchesFrom(source) == {i \in 1..Len(fetches) : fetches[i].source = source}

NewsApiFailed ==
    /\ Len(fetches) >= 1
    /\ fetches[1].source = "newsapi"
    /\ fetches[1].kind = "RemoteApiError"

\* C25: with a NewsAPI key, under --source auto a RemoteApiError of the
\* NewsAPI fetch is followed by one Google News RSS fetch, and a run that
\* then reports has analyzed that fetch's articles and reports the source
\* google-rss; under --source newsapi the error is raised and no RSS fetch
\* is made; and under either, an RSS fetch comes only after the NewsAPI
\* fetch has failed.
C25_FallbackOnlyUnderAuto ==
    argv.newsapi_key # "" =>
        /\ (argv.source = "auto" /\ NewsApiFailed) =>
              /\ \/ (cli_pc = "google-rss" /\ FetchesFrom("google-rss") = {})
                 \/ (cli_pc \in {"analyze", "done"} /\ FetchesFrom("google-rss") = {2})
              /\ (exit # NotCalled /\ exit.kind = "return") =>
                    /\ exit.source = "google-rss"
                    /\ exit.analyzed =
                          Dedupe(fetches[2].articles, {}, <<>>, argv.max_articles)
        /\ (argv.source = "newsapi" /\ NewsApiFailed) =>
              /\ exit = CliRaise("RemoteApiError")
              /\ FetchesFrom("google-rss") = {}
        /\ argv.source \in {"auto", "newsapi"} =>
              /\ cli_pc = "google-rss" => NewsApiFailed
              /\ \A i \in FetchesFrom("google-rss") : i = 2 /\ NewsApiFailed

\* A run that fell back reports the two distinct articles of the RSS fetch
\* under the source google-rss
C25_Witness ==
    /\ argv.source = "auto"
    /\ argv.newsapi_key = "y"
    /\ NewsApiFailed
    /\ Len(fetches) = 2
    /\ fetches[2].articles = <<Article("a", "u1"), Article("b", "u1")>>
    /\ exit # NotCalled
    /\ exit.kind = "return"
    /\ exit.source = "google-rss"
    /\ exit.analyzed = <<Article("a", "u1")>>

\* Under --source newsapi the error of the NewsAPI fetch ends the run
C25_WitnessRaised ==
    /\ argv.source = "newsapi"
    /\ NewsApiFailed
    /\ exit = CliRaise("RemoteApiError")

(***************************************************************************)
(* analyze_with_cache with a batch size below one                          *)
(***************************************************************************)
\* C38: a call with batch_size <= 0 that returns has sent every article
\* without a cache hit to the classifier, each in one call, and has made
\* no classification call with an empty article list.
C38_NonPositiveBatchSizeIsOne ==
    (Returned /\ runs > 0 /\ args.batch_size <= 0) =>
        /\ \A i \in 1..Len(Calls) : Calls[i].batch # <<>>
        /\ Flatten(Calls) = Unserved

(***************************************************************************)
(* A call that a classification call ends                                  *)
(***************************************************************************)
\* The call is over and a classification call ended it
FailedClassifying ==
    /\ pc = "idle"
    /\ outcome.kind = "raised"
    /\ outcome.error # "UnicodeDecodeError"
    /\ Calls # <<>>

\* The set rewrites, under its primary key, a hit found under another key
IsWarmForward(e) ==
    \E id \in DOMAIN hits : hits[id].used # 1 /\ e.key = PrimaryKey(id)

\* The failed call wrote nothing but warm-forward rewrites, and no file of
\* an article it sent to the classifier holds an entry that is a hit
WroteNoFreshResult ==
    FailedClassifying =>
        /\ \A i \in 1..Len(log) : log[i].op = "set" => IsWarmForward(log[i])
        /\ \A i \in 1..Len(to_analyze) :
              Sent(to_analyze[i]) =>
                  ~Satisfies(files, PrimaryKey(to_analyze[i]), to_analyze[i])

\* The second call has looked every article up
RetryLookedUp == failed_run # NoFailedRun /\ pc # "lookup"

\* The second call needs, and once it returns has sent, the articles the
\* failed call had no cache hit for
RetrySendsTheMisses ==
    /\ to_analyze = failed_run.unserved
    /\ Returned => Flatten(Calls) = failed_run.unserved

\* No entry the failed call read as a hit has outlived the TTL
HitsStillFresh ==
    \/ args.cache_ttl_seconds = NoTTL
    \/ now - failed_run.oldest <= args.cache_ttl_seconds

C35_WitnessWarmed ==
    /\ failed_run # NoFailedRun
    /\ Len(failed_run.sets) = 1
    /\ failed_run.unserved = <<"a2">>
    /\ Returned
    /\ Calls = <<Classify(<<"a2">>)>>

(***************************************************************************)
(* What a cache entry is written for                                       *)
(***************************************************************************)
\* The base URL without its trailing slashes, as text
RECURSIVE WithoutTrailingSlashes(_)
WithoutTrailingSlashes(url) ==
    IF url # <<>> /\ url[Len(url)] = "/"
    THEN WithoutTrailingSlashes(SubSeq(url, 1, Len(url) - 1)) ELSE url

\* The two requests have the ticker, the model, the base URL but for
\* trailing slashes, the temperature, the max output tokens and the article
SameSettings(w, r) ==
    /\ w.ticker = r.ticker
    /\ w.openai.model = r.openai.model
    /\ WithoutTrailingSlashes(w.openai.base_url) = WithoutTrailingSlashes(r.openai.base_url)
    /\ w.openai.temperature = r.openai.temperature
    /\ w.openai.max_output_tokens = r.openai.max_output_tokens
    /\ w.article_id = r.article_id

\* C31: on a cache that started empty, the second call is served from the
\* cache only when the first call, which wrote the entry, had the same
\* ticker, model, base URL but for trailing slashes, temperature, max
\* output tokens and article id; when it differs in any, it classifies.
C31_CacheIsolatesSettings ==
    (probed # NotCalled /\ probed.used # 0) => SameSettings(stored.request, probed.request)

\* The second call, at temperature 0.2000001, is served the entry written
\* at temperature 0.2
ServedAcrossTemperatures ==
    /\ probed # NotCalled
    /\ probed.used = 1
    /\ stored.request.openai.temperature = 2000000
    /\ probed.request.openai.temperature = 2000001

\* The second call, for base URL http://a:b and model m, is served the
\* entry written for base URL http://a and model b:m
ServedAcrossModels ==
    /\ probed # NotCalled
    /\ probed.used = 1
    /\ stored.request.openai.temperature = probed.request.openai.temperature
    /\ stored.request.openai.model = <<"b", ":", "m">>
    /\ probed.request.openai.model = <<"m">>

\* With temperatures that differ in their first six digits and models of
\* one part, the cache isolates the settings
IsolatesApartFromThose ==
    (/\ probed # NotCalled /\ probed.used # 0
     /\ stored.request.openai.model = <<"m">> /\ probed.request.openai.model = <<"m">>
     /\ 2000001 \notin {stored.request.openai.temperature, probed.request.openai.temperature})
        => SameSettings(stored.request, probed.request)

(***************************************************************************)
(* Entries of the model output for other articles, and for one article     *)
(* more than once                                                          *)
(***************************************************************************)
\* The entry names an article that is not among the input articles
Foreign(item) ==
    /\ IsDict(item)
    /\ IsStr(item.article_id)
    /\ \A i \in 1..Len(call.articles) : call.articles[i] # item.article_id.s

\* The call on the same output without its foreign entries
WithoutForeign ==
    analyze_articles_with_openai(
        call.api_key, call.articles, call.include_reasons,
        [kind |-> "results", items |-> SelectSeq(call.reply.items, LAMBDA it : ~Foreign(it))])

\* The positions of the entries that pass the validation for the article
ValidFor(id) ==
    {i \in 1..Len(call.reply.items) :
        LET v == ValidateItem(call.reply.items[i], call.include_reasons)
        IN v.kind = "keep" /\ v.result.article_id = id}

\* The results returned name input articles only, and an article with
\* valid entries has the result of the last of them
OnlyInputArticlesLastEntryWins ==
    /\ \A i \in 1..Len(returned.results) :
          \E j \in 1..Len(call.articles) : returned.results[i].article_id = call.articles[j]
    /\ \A i \in 1..Len(call.articles) :
          ValidFor(call.articles[i]) # {} =>
              returned.results[i] =
                  ValidateItem(call.reply.items[
                                   CHOOSE k \in ValidFor(call.articles[i]) :
                                       \A m \in ValidFor(call.articles[i]) : m <= k],
                               call.include_reasons).result

\* C37: for a model output with a results array, the call ends as it does
\* on the same output without the entries that name no input article, no
\* result it returns names another article, and an article with several
\* valid entries has the result of the last one.
C37_ForeignEntriesAreInert ==
    (returned # NotCalled /\ call.api_key # "" /\ call.reply.kind = "results") =>
        /\ returned = WithoutForeign
        /\ returned.kind = "ok" => OnlyInputArticlesLastEntryWins

\* It is so whenever the call returns
ForeignEntriesInertWhenReturned ==
    (returned # NotCalled /\ call.reply.kind = "results" /\ returned.kind = "ok") =>
        /\ returned = WithoutForeign
        /\ OnlyInputArticlesLastEntryWins

\* Two valid entries for a2, the second returned
LastEntryReturned ==
    /\ returned # NotCalled /\ returned.kind = "ok"
    /\ call.articles = <<"a1", "a2">>
    /\ call.reply.kind = "results"
    /\ ValidFor("a2") = {1, 2}
    /\ call.reply.items[1] # call.reply.items[2]
    /\ returned.results[2].label = call.reply.items[2].label.s
    /\ returned.results[2].label # call.reply.items[1].label.s

(***************************************************************************)
(* The weighted mean of summarize_sentiment                                *)
(***************************************************************************)
\* The weight of one result: 1 without a timestamp, the decay otherwise,
\* times the confidence held to [0, 1]
WeightOf(r) ==
    Times(IF r.published_at.known THEN _recency_weight(r.published_at, half_life_hours)
          ELSE Fin(1, 1),
          ClampFloat(r.confidence, Fin(0, 1), Fin(1, 1)))

TotalWeight == Sum([i \in 1..Len(scored) |-> WeightOf(scored[i])])

WeightedMean ==
    Over(Sum([i \in 1..Len(scored) |-> Times(scored[i].score, WeightOf(scored[i]))]),
         TotalWeight)

EveryConfidenceZero == \A i \in 1..Len(scored) : scored[i].confidence = Fin(0, 1)

IsZeroSummary ==
    /\ summary.score = Fin(0, 1)
    /\ summary.confidence = Fin(0, 1)
    /\ summary.label = "neutral"
    /\ summary.signal = "hold"

\* C34 as it is worded: with a total weight of zero the summary is score 0,
\* confidence 0, neutral, hold, and otherwise the score is the weighted mean
\* itself
C34_AsStated ==
    Summarized =>
        /\ EveryConfidenceZero => TotalWeight = Fin(0, 1)
        /\ IF TotalWeight = Fin(0, 1) THEN IsZeroSummary
           ELSE summary.score = WeightedMean

\* C34: an empty list or confidences that are all 0 give a total weight of
\* zero; with a total weight of zero summarize_sentiment returns score 0,
\* confidence 0, label neutral and signal hold; otherwise the score is the
\* sum of score*weight over the sum of the weights, held to [-1, 1], with
\* weight = recencyWeight * clamp(confidence, 0, 1) and recencyWeight = 1
\* for a result without a timestamp
C34_ScoreIsClampedWeightedMean ==
    Summarized =>
        /\ EveryConfidenceZero => TotalWeight = Fin(0, 1)
        /\ IF TotalWeight = Fin(0, 1) THEN IsZeroSummary
           ELSE summary.score = ClampFloat(WeightedMean, Fin(-1, 1), Fin(1, 1))

\* Two results of different weights, one without a timestamp, whose mean
\* lies strictly between their scores
C34_Witness ==
    /\ Summarized
    /\ Len(scored) = 2
    /\ ~scored[1].published_at.known /\ scored[2].published_at.known
    /\ scored[1].score = Fin(3, 20) /\ scored[2].score = Fin(-4, 5)
    /\ Less(Fin(0, 1), WeightOf(scored[2]))
    /\ Less(WeightOf(scored[2]), WeightOf(scored[1]))
    /\ Less(Fin(-4, 5), summary.score) /\ Less(summary.score, Fin(3, 20))

\* Two results of confidence 0 and scores that are not 0
C34_WitnessZeroWeight ==
    /\ Summarized
    /\ Len(scored) = 2
    /\ EveryConfidenceZero
    /\ scored[1].score = Fin(3, 20) /\ scored[2].score = Fin(-4, 5)
    /\ IsZeroSummary

\* A result whose score lies beyond 1 is summarised as 1
C34_WitnessClamped ==
    /\ Summarized
    /\ Len(scored) = 1
    /\ scored[1].score = Fin(3, 1)
    /\ TotalWeight # Fin(0, 1)
    /\ summary.score = Fin(1, 1)


(***************************************************************************)
(* Statuses that are not retried                                           *)
(***************************************************************************)
\* Neither 2xx nor one of the retried statuses
Permanent(status) == ~(status >= 200 /\ status < 300) /\ status \notin Transient

\* The response of request i ended the call: no request and no sleep
\* followed it
EndedTheCallAt(i) ==
    /\ i = Len(served)
    /\ requests = i
    /\ sleeps = i - 1
    /\ ended.kind = "raised"

\* C32: a response whose status is neither 2xx nor in {0, 429, 500, 502,
\* 503, 504} is never retried: http_request_json and http_request_bytes
\* raise RemoteApiError after it, without a sleep and without another
\* request, even when retries remain
C32_PermanentStatusNotRetried ==
    \A i \in 1..Len(served) :
        Permanent(served[i]) => EndedTheCallAt(i) /\ ended.error = "RemoteApiError"

\* What holds of C32: the call ends at that response, with RemoteApiError
\* unless the body is a gzip stream cut short
PermanentStatusEndsTheCall ==
    \A i \in 1..Len(served) :
        Permanent(served[i]) =>
            /\ EndedTheCallAt(i)
            /\ IF last.response.encoding = "truncated" THEN ended.error = "EOFError"
               ELSE ended.error = "RemoteApiError" /\ ended.text.status = served[i]

\* A 401 met with retries left ended the call with RemoteApiError
PermanentStatusWithRetriesLeft ==
    /\ served = <<401>>
    /\ req.max_retries = MaxRetries
    /\ ended.kind = "raised" /\ ended.error = "RemoteApiError"
    /\ sleeps = 0

\* A 401 whose body is a gzip stream cut short ended the call with EOFError
PermanentStatusRaisedEOFError ==
    /\ served = <<429, 401>>
    /\ ended.kind = "raised" /\ ended.error = "EOFError"


(***************************************************************************)
(* The sleep before a retry                                                *)
(***************************************************************************)
\* The seconds of the Retry-After header of a response, NoRetryAfter
\* without one
RetryAfterOf(met) ==
    IF met.kind # "response" THEN NoRetryAfter
    ELSE LET parsed == _parse_retry_after_seconds(met.response.retry_after)
         IN IF parsed.kind = "ok" THEN parsed.seconds ELSE NoRetryAfter

\* C33: before retry number n (attempt index n-1) the transport sleeps at
\* least backoffBase * 2^(n-1); when the failed response carries a
\* Retry-After of r seconds it sleeps at least min(r, maxRetryAfter); a
\* Retry-After above maxRetryAfter never raises the delay above
\* max(backoff with jitter, maxRetryAfter); and no sleep happens after the
\* last allowed attempt
C33_SleepBounds ==
    [][/\ attempt >= req.max_retries => sleeps' = sleeps
       /\ sleeps' # sleeps =>
            /\ sleeps' = sleeps + 1
            /\ attempt' = attempt + 1
            /\ sleep_s' >= retry_backoff_base_seconds * Pow2(attempt)
            /\ \A met \in Meets(req.url), jitter \in Jitters :
                    Pass(met, jitter) =>
                        LET r == RetryAfterOf(met) IN
                        /\ r # NoRetryAfter => sleep_s' >= Min(r, max_retry_after_seconds)
                        /\ r > max_retry_after_seconds =>
                                sleep_s' <= Max(retry_backoff_base_seconds * Pow2(attempt) + jitter,
                                                max_retry_after_seconds)]_vars

\* The second retry was preceded by the sleep of a Retry-After above the
\* cap
C33_Witness ==
    /\ sleeps = 2
    /\ attempt = 2
    /\ served = <<503, 429>>
    /\ sleep_s = max_retry_after_seconds
    /\ ended = NotEnded

\* The second retry was preceded by a backoff longer than the Retry-After
C33_WitnessBackoffLonger ==
    /\ sleeps = 2
    /\ served = <<429, 429>>
    /\ sleep_s = 2 * retry_backoff_base_seconds + 24
    /\ ended = NotEnded


(***************************************************************************)
(* The two transport functions side by side                                *)
(***************************************************************************)
SameProtocol(j, b) ==
    /\ j.requests = b.requests
    /\ j.served = b.served
    /\ j.attempt = b.attempt
    /\ j.sleeps = b.sleeps
    /\ j.sleep_s = b.sleep_s
    /\ j.ended = NotEnded <=> b.ended = NotEnded

Is2xx(status) == status >= 200 /\ status < 300

C39_WitnessDiffer ==
    /\ pair # NotCalled
    /\ pair.json.served = <<503, 200>>
    /\ pair.bytes.ended.kind = "returned"
    /\ pair.json.ended.kind = "raised" /\ pair.json.ended.error = "RemoteApiError"


(***************************************************************************)
(* One get and one set on one key                                          *)
(***************************************************************************)
\* The get of process g read the file found at the start, corrupt or
\* expired, and returned None
GetReadStale(g) ==
    /\ proc[g].raw \in {InvalidJson, Entry(0, StoredV0)}
    /\ proc[g].result.kind = "returned"
    /\ proc[g].result.value = PyNone

\* One set by s and one get by g were called, and both are over
OneSetOneGetOver(s, g) ==
    /\ AllQuiet
    /\ calls = 2
    /\ proc[s].op = "set" /\ proc[g].op = "get"
    /\ proc[s].result.kind = "returned"
    /\ GetReadStale(g)

\* C36: an entry written by a completed set(k, v) is never removed by a
\* concurrent get(k): when a get that read an expired or corrupt entry of k
\* interleaves with a set on k, the cache holds v for k after both
C36_GetKeepsFreshEntry ==
    \A s \in Procs, g \in Procs :
        OneSetOneGetOver(s, g) => entries["k1"] = EntryOf(s)

\* What holds of C36: the file is the entry of the set or is gone, and the
\* old file is never left
FreshEntryOrNothing ==
    \A s \in Procs, g \in Procs :
        OneSetOneGetOver(s, g) => entries["k1"] \in {EntryOf(s), NoFile}

\* The set returned, the get returned, and k has no file
FreshEntryRemoved ==
    \E s \in Procs, g \in Procs : OneSetOneGetOver(s, g) /\ entries["k1"] = NoFile

\* The get unlinked before the rename of the set: the entry is there
FreshEntryKept ==
    \E s \in Procs, g \in Procs : OneSetOneGetOver(s, g) /\ entries["k1"] = EntryOf(s)

====
